---- MODULE Spec2Model ----
(***************************************************************************)
(* The egress connection pool of src/mongo/executor/connection_pool.cpp:   *)
(* ConnectionPool, its per-endpoint SpecificPool and the PoolClub tying    *)
(* the pools of one replica set together.                                  *)
(*                                                                         *)
(* One mutex guards the whole hierarchy.  A step of the model is one       *)
(* critical section: the code from a lock acquisition to the next unlock,  *)
(* or one call made while the lock is dropped (completing a promise).      *)
(* What is left of an operation after it drops the lock is kept as a       *)
(* stack of frames in a task; other tasks run in between.                  *)
(***************************************************************************)
EXTENDS Integers, Sequences, FiniteSets, Bags, TLC

VARIABLES
    opt,        \* ConnectionPool::Options, fixed at construction
    now,        \* the factory's clock
    pools,      \* every SpecificPool object ever constructed, by object id
    poolMap,    \* ConnectionPool::_pools : host -> object id, or NoPool
    clubs,      \* every PoolClub object ever constructed, by object id
    poolClubs,  \* ConnectionPool::_poolClubs : set name -> club id, or NoClub
    tasks,      \* bag of the callbacks scheduled or running off the lock
    promises,   \* one record per future handed out by get()
    handles,    \* the ConnectionHandles callers hold
    inflight,   \* setup()/refresh() calls whose callback has not been delivered
    left,       \* what the environment may still do
    fault,      \* the invariant()/fassert() that ended the process, or "none"
    params,     \* ShardingTaskExecutorParameters: the configured durations, and
                \* the ones load() stored
    list        \* a LockFreeList and the threads inside its add()

vars == <<opt, now, pools, poolMap, clubs, poolClubs, tasks, promises, handles,
          inflight, left, fault, params, list>>

----------------------------------------------------------------------------
(* Bounds of the model. *)

MaxCreated == 2      \* connections one SpecificPool object may create
MaxPools == 2        \* SpecificPool objects constructed
MaxGets == 2         \* get() calls in one run
MaxCompletions == 2  \* setup()/refresh() completions in one run
MaxTicks == 2        \* clock advances in one run
MaxParam == 3        \* the largest duration configured, in ms
MaxAdds == 4         \* threads inside LockFreeList::add(), one call each

----------------------------------------------------------------------------
(* Values. *)

Hosts == {"h1", "h2"}
NoPool == 0
NoClub == 0
NoTime == -1
NoConn == [id |-> 0, gen |-> 0, lastUsed |-> 0, timer |-> NoTime]
NoTimer == [kind |-> "none", at |-> 0]
DateMax == 999

\* transport::Session::TagMask: a word of tag bits.  Two bits are modelled:
\* kKeepOpen and kPending, the tag a SpecificPool starts with.
TagBits == 2
kKeepOpen == 1
kPending == 2
TagMasks == 0..(2 ^ TagBits - 1)
Timeouts == {-1, 0, 1, 2}

\* LockFreeList<T, kBlockSize>: the slots one resize adds, kBlockSize /
\* sizeof(T*).  size_t is narrowed to 8 bits: the counters stay far below,
\* and the one wrap, 0 - 1 in add(), lands above every index as it does in
\* 64 bits.
kCapacityGranularity == 2
SizeT == 256
NullPtr == 0
Garbage == -1
Adders == 1..MaxAdds
NoList ==
    [nextWriteIndex |-> 0, readEnd |-> 0, capacity |-> 0, data |-> <<>>,
     th |-> <<>>, fault |-> "none"]

\* The durations of ShardingTaskExecutorParameters, in ms.
ParamValues == 0..MaxParam
NotLoaded == [refreshRequirement |-> -1, refreshTimeout |-> -1, hostTimeout |-> -1]
Durations(rr, rt, ht) ==
    [refreshRequirement |-> rr, refreshTimeout |-> rt, hostTimeout |-> ht]

\* ShardingTaskExecutorParameters::load, the three durations it stores.
load(c) ==
    LET refreshRequirement == c.refreshRequirement
        refreshTimeout == IF refreshRequirement <= c.refreshTimeout
                          THEN refreshRequirement - 1 ELSE c.refreshTimeout
        hostTimeout == IF c.hostTimeout <= refreshRequirement + refreshTimeout
                       THEN refreshRequirement + refreshTimeout + 1 ELSE c.hostTimeout
    IN Durations(refreshRequirement, refreshTimeout, hostTimeout)

\* transport::ConnectSSLMode, two of its values, and what _sslMode holds until
\* setOrCheckSSLMode writes it: the constructor does not initialise it.
kGlobalSSLMode == "kGlobalSSLMode"
kEnableSSL == "kEnableSSL"
Indeterminate == "indeterminate"

OK == "OK"
TimeLimit == "NetworkInterfaceExceededTimeLimit"
HostUnreachable == "HostUnreachable"
Dropped == "PooledConnectionsDropped"
ShutdownInProgress == "ShutdownInProgress"
Unknown == "Unknown"

Max(a, b) == IF a >= b THEN a ELSE b

\* a & b on TagMask words.
RECURSIVE BitAnd(_, _)
BitAnd(a, b) ==
    IF a = 0 \/ b = 0 THEN 0
    ELSE (a % 2) * (b % 2) + 2 * BitAnd(a \div 2, b \div 2)
Min(a, b) == IF a <= b THEN a ELSE b

\* The unordered_set iteration order of a club's pools: some order, the same
\* for one pass over the set.
SeqOfSet(S, asc) ==
    LET n == Cardinality(S)
        up[i \in 0..n] ==
            IF i = 0 THEN <<>>
            ELSE LET rest == S \ {up[i - 1][j] : j \in 1..(i - 1)}
                     m == CHOOSE x \in rest : \A y \in rest : x <= y
                 IN Append(up[i - 1], m)
    IN IF asc THEN up[n] ELSE [i \in 1..n |-> up[n][n + 1 - i]]

----------------------------------------------------------------------------
(* The request heap: std::push_heap / std::pop_heap under RequestComparator. *)

\* The comparator of a max-heap: the latest deadline at the front.
RequestComparator_less(a, b) == a.deadline < b.deadline

\* RequestComparator: a.first > b.first
RequestComparator(a, b) == a.deadline > b.deadline

\* Sift the value at the end of s up (0-based hole index in the code).
RECURSIVE pushHeapFrom(_, _, _)
pushHeapFrom(s, hole, value) ==
    IF hole > 1 /\ RequestComparator(s[hole \div 2], value)
    THEN pushHeapFrom([s EXCEPT ![hole] = s[hole \div 2]], hole \div 2, value)
    ELSE [s EXCEPT ![hole] = value]

push_heap(s) == IF Len(s) <= 1 THEN s ELSE pushHeapFrom(s, Len(s), s[Len(s)])

\* Move the hole at the root down along the preferred children, over the
\* first n elements.
RECURSIVE adjustHeap(_, _, _)
adjustHeap(s, hole, n) ==
    LET l == 2 * hole
        r == 2 * hole + 1
    IN IF r <= n
       THEN LET c == IF RequestComparator(s[r], s[l]) THEN l ELSE r
            IN adjustHeap([s EXCEPT ![hole] = s[c]], c, n)
       ELSE IF l = n
       THEN [h |-> l, s |-> [s EXCEPT ![hole] = s[l]]]
       ELSE [h |-> hole, s |-> s]

\* pop_heap followed by pop_back: the front leaves, the rest is a heap again.
pop_heap(s) ==
    LET n == Len(s) - 1
    IN IF n = 0 THEN <<>>
       ELSE LET value == s[n + 1]
                a == adjustHeap(SubSeq(s, 1, n), 1, n)
            IN pushHeapFrom(a.s, a.h, value)

----------------------------------------------------------------------------
(* Objects. *)

Conn(id, gen) == [id |-> id, gen |-> gen, lastUsed |-> 0, timer |-> NoTime]

\* SpecificPool::SpecificPool; the controller is set by resetController.
SpecificPool(h, ctl) ==
    [host |-> h, controller |-> ctl,
     readyPool |-> <<>>, processingPool |-> {}, droppedProcessingPool |-> {},
     checkedOutPool |-> {}, requests |-> <<>>,
     requestTimer |-> NoTimer, requestTimerExpiration |-> 0,
     activeClients |-> 0, generation |-> 0, created |-> 0, state |-> "kRunning",
     tags |-> kPending, sslMode |-> Indeterminate]

\* class PoolClub, as resetController and _getPoolClub fill it in.
PoolClub(members) ==
    [minConns |-> 0, defaultMinConns |-> opt.minConnections, primary |-> "",
     pools |-> members]

\* What is left of an operation once it has dropped the lock.
\*   c : a connection id, the callback's local `now`, a tag mask, or 1 when
\*       the loop's iterator was erased
\*   r : a request id, or a club;  st : a status
\*   l : a list of pools or of requests
Frame(op, p, c, r, st, l) == [op |-> op, p |-> p, c |-> c, r |-> r, st |-> st, l |-> l]
F(op, p) == Frame(op, p, 0, 0, "", <<>>)

\* guardCallback: gp is the pool whose _activeClients the callback holds.
Guarded(p, fr) == [gp |-> p, st |-> FALSE, fr |-> fr]
\* A caller's own thread, or a callback that is not guarded.
Unguarded(fr) == [gp |-> NoPool, st |-> TRUE, fr |-> fr]

\* The mutable program state, as one value the operations transform.
G0 == [pools |-> pools, poolMap |-> poolMap, clubs |-> clubs, poolClubs |-> poolClubs,
       tasks |-> tasks, promises |-> promises, handles |-> handles,
       inflight |-> inflight, fault |-> fault, oob |-> FALSE]

Fault(G, what) == [G EXCEPT !.fault = IF @ = "none" THEN what ELSE @]
Schedule(G, t) == [G EXCEPT !.tasks = @ (+) SetToBag({t})]
Ret(G) == [g |-> G, fr |-> <<>>, win |-> FALSE]

inUseConnections(pl) == Cardinality(pl.checkedOutPool)
availableConnections(pl) == Len(pl.readyPool)
refreshingConnections(pl) == Cardinality(pl.processingPool)
openConnections(pl) ==
    Cardinality(pl.checkedOutPool) + Len(pl.readyPool) + Cardinality(pl.processingPool)

WithId(S, id) == {c \in S : c.id = id}
InReady(pl, id) == \E i \in 1..Len(pl.readyPool) : pl.readyPool[i].id = id

----------------------------------------------------------------------------
(* SpecificPool, under the lock. *)

\* matchesTags that asks for the same tags instead of a common one.
matchesTags_equal(pl, tags) == pl.tags = tags

\* SpecificPool::matchesTags
matchesTags(pl, tags) == BitAnd(pl.tags, tags) # 0

\* SpecificPool::fassertSSLMode.  `same` is what the comparison yields when
\* _sslMode was never written.
fassertSSLMode(G, p, desired, same) ==
    IF \/ G.pools[p].sslMode = Indeterminate /\ ~same
       \/ G.pools[p].sslMode \notin {Indeterminate, desired}
    THEN Fault(G, "fassertSSLMode: fassert 51043")
    ELSE G

\* SpecificPool::setOrCheckSSLMode
setOrCheckSSLMode(G, p, desired, same) ==
    IF G.pools[p].created = 0
    THEN [G EXCEPT !.pools[p].sslMode = desired]
    ELSE fassertSSLMode(G, p, desired, same)

\* The range-for of fulfillRequests over _controller->pools, and the one of
\* checkShutdown, keep an iterator into the set while the callee gives the
\* lock up.  handleConfig's std::exchange moves the nodes of the named club
\* into oldPools, which erases and then frees them; setController drops the
\* pool's last reference to the club it leaves.  Every walk under way over
\* one of the clubs `cs` is left with an invalid iterator.
walksExchanged(G, cs) ==
    [G EXCEPT !.tasks =
        BagOfAll(LAMBDA t :
                     [t EXCEPT !.fr =
                         [j \in 1..Len(t.fr) |->
                             IF t.fr[j].op \in {"spawnAll", "checkShutdown.loop"}
                                /\ t.fr[j].r \in cs
                             THEN [t.fr[j] EXCEPT !.c = 1] ELSE t.fr[j]]], @)]

\* _controller->pools.erase(this): a walk of fulfillRequests over `club` that
\* is inside spawnConnections of pool p has its iterator on the erased
\* element.
walkErased(G, club, p) ==
    [G EXCEPT !.tasks =
        BagOfAll(LAMBDA t :
                     [t EXCEPT !.fr =
                         [j \in 1..Len(t.fr) |->
                             IF /\ t.fr[j].op = "spawnAll" /\ t.fr[j].r = club
                                /\ j > 1
                                /\ t.fr[j - 1].op = "spawnConnections"
                                /\ t.fr[j - 1].p = p
                             THEN [t.fr[j] EXCEPT !.c = 1] ELSE t.fr[j]]], @)]

\* SpecificPool::updateStateInLock
updateStateInLock(G, p) ==
    LET pl == G.pools[p]
    IN IF pl.state = "kInShutdown"
       THEN IF pl.processingPool = {} /\ pl.activeClients = 0
            THEN [(IF p \in G.clubs[pl.controller].pools
                   THEN walkErased(G, pl.controller, p) ELSE G)
                     EXCEPT !.clubs[pl.controller].pools = @ \ {p},
                            !.poolMap[pl.host] = NoPool]
            ELSE G
       ELSE IF Len(pl.requests) > 0
       THEN IF pl.state = "kRunning"
               /\ pl.requestTimerExpiration = pl.requests[1].deadline
            THEN G
            ELSE [G EXCEPT !.pools[p] =
                     [pl EXCEPT !.state = "kRunning",
                                !.requestTimerExpiration = pl.requests[1].deadline,
                                !.requestTimer =
                                    [kind |-> "request", at |-> pl.requests[1].deadline]]]
       ELSE IF pl.checkedOutPool # {}
       THEN [G EXCEPT !.pools[p] =
                [pl EXCEPT !.requestTimer = NoTimer,
                           !.state = "kRunning",
                           !.requestTimerExpiration = DateMax]]
       ELSE IF pl.state = "kIdle"
       THEN G
       ELSE [G EXCEPT !.pools[p] =
                [pl EXCEPT !.state = "kIdle",
                           !.requestTimerExpiration = now + opt.hostTimeout,
                           !.requestTimer =
                               [kind |-> "host", at |-> now + opt.hostTimeout]]]

\* tryGetInternal that takes from the far end of _readyPool.
tryGetInternal_takesOldest(G, p, k) ==
    LET pl == G.pools[p]
        n == Len(pl.readyPool)
        d == Min(k, n)
    IN IF d = n
       THEN [g |-> [G EXCEPT !.pools[p].readyPool = <<>>], conn |-> NoConn]
       ELSE LET c == [pl.readyPool[n - d] EXCEPT !.timer = NoTime]
            IN [g |-> [G EXCEPT !.pools[p].readyPool = SubSeq(pl.readyPool, 1, n - d - 1),
                                !.pools[p].checkedOutPool = @ \cup {c}],
                conn |-> c]

\* tryGetInternal without the erase from _readyPool.
tryGetInternal_keepsReady(G, p, k) ==
    LET pl == G.pools[p]
        n == Len(pl.readyPool)
        d == Min(k, n)
    IN IF d = n
       THEN [g |-> [G EXCEPT !.pools[p].readyPool = <<>>], conn |-> NoConn]
       ELSE LET c == [pl.readyPool[d + 1] EXCEPT !.timer = NoTime]
            IN [g |-> [G EXCEPT !.pools[p].readyPool = SubSeq(pl.readyPool, d + 1, n),
                                !.pools[p].checkedOutPool = @ \cup {c}],
                conn |-> c]

\* SpecificPool::tryGetInternal.  isHealthy() is the connection's answer: the
\* first k ready connections report unhealthy and are dropped.
tryGetInternal(G, p, k) ==
    LET pl == G.pools[p]
        n == Len(pl.readyPool)
        d == Min(k, n)
    IN IF d = n
       THEN [g |-> [G EXCEPT !.pools[p].readyPool = <<>>], conn |-> NoConn]
       ELSE LET c == [pl.readyPool[d + 1] EXCEPT !.timer = NoTime]
            IN [g |-> [G EXCEPT !.pools[p].readyPool = SubSeq(pl.readyPool, d + 2, n),
                                !.pools[p].checkedOutPool = @ \cup {c}],
                conn |-> c]

\* SpecificPool::updateController
updateController(G, p) ==
    LET ctl == G.pools[p].controller
        club == G.clubs[ctl]
        inUse == {inUseConnections(G.pools[q]) : q \in club.pools}
        m == CHOOSE x \in inUse \cup {club.defaultMinConns} :
                 \A y \in inUse \cup {club.defaultMinConns} : x >= y
    IN [G EXCEPT !.clubs[ctl].minConns = m]

\* The target of spawnConnections.
spawnTarget(G, p) ==
    LET pl == G.pools[p]
    IN Max(G.clubs[pl.controller].minConns,
           Min(Len(pl.requests) + Cardinality(pl.checkedOutPool), opt.maxConnections))

\* spawnConnections without the return for a pool in kInShutdown.
spawnConnections_inShutdown(G, p) ==
    LET pl == G.pools[p]
    IN IF openConnections(pl) < spawnTarget(G, p)
          /\ Cardinality(pl.processingPool) < opt.maxConnecting
       THEN IF pl.created >= MaxCreated
            THEN [g |-> [G EXCEPT !.oob = TRUE], fr |-> <<>>, win |-> TRUE]
            ELSE LET c == Conn(pl.created + 1, pl.generation)
                 IN [g |-> [G EXCEPT !.pools[p].processingPool = @ \cup {c},
                                     !.pools[p].created = @ + 1,
                                     !.inflight = @ \cup {[p |-> p, c |-> c.id]}],
                     fr |-> <<F("spawnConnections", p)>>,
                     win |-> TRUE]
       ELSE Ret(G)

\* SpecificPool::spawnConnections, one turn of its loop: up to the unlock
\* around setup().
spawnConnections(G, p) ==
    LET pl == G.pools[p]
    IN IF pl.state # "kInShutdown"
          /\ openConnections(pl) < spawnTarget(G, p)
          /\ Cardinality(pl.processingPool) < opt.maxConnecting
       THEN IF pl.created >= MaxCreated
            THEN [g |-> [G EXCEPT !.oob = TRUE], fr |-> <<>>, win |-> TRUE]
            ELSE LET c == Conn(pl.created + 1, pl.generation)
                 IN [g |-> [G EXCEPT !.pools[p].processingPool = @ \cup {c},
                                     !.pools[p].created = @ + 1,
                                     !.inflight = @ \cup {[p |-> p, c |-> c.id]}],
                     fr |-> <<F("spawnConnections", p)>>,
                     win |-> TRUE]
       ELSE Ret(G)

\* processFailure that clears _processingPool without the migration.
processFailure_dropsProcessing(G, p, status) ==
    LET pl == G.pools[p]
        ids == [i \in 1..Len(pl.requests) |-> pl.requests[i].id]
        g1 == [G EXCEPT !.pools[p] =
                 [pl EXCEPT !.generation = @ + 1,
                            !.readyPool = <<>>,
                            !.processingPool = {},
                            !.requests = <<>>]]
    IN [g |-> updateStateInLock(g1, p),
        fr |-> IF ids = <<>> THEN <<>> ELSE <<Frame("setError", p, 0, 0, status, ids)>>,
        win |-> TRUE]

\* processFailure without the swap that takes the requests out of _requests.
processFailure_keepsRequests(G, p, status) ==
    LET pl == G.pools[p]
        ids == [i \in 1..Len(pl.requests) |-> pl.requests[i].id]
        g1 == [G EXCEPT !.pools[p] =
                 [pl EXCEPT !.generation = @ + 1,
                            !.readyPool = <<>>,
                            !.droppedProcessingPool =
                                IF pl.state # "kInShutdown"
                                THEN @ \cup pl.processingPool ELSE @,
                            !.processingPool = {}]]
    IN [g |-> updateStateInLock(g1, p),
        fr |-> IF ids = <<>> THEN <<>> ELSE <<Frame("setError", p, 0, 0, status, ids)>>,
        win |-> TRUE]

\* SpecificPool::processFailure, up to the unlock around the setError calls.
processFailure(G, p, status) ==
    LET pl == G.pools[p]
        ids == [i \in 1..Len(pl.requests) |-> pl.requests[i].id]
        g1 == [G EXCEPT !.pools[p] =
                 [pl EXCEPT !.generation = @ + 1,
                            !.readyPool = <<>>,
                            !.droppedProcessingPool =
                                IF pl.state # "kInShutdown"
                                THEN @ \cup pl.processingPool ELSE @,
                            !.processingPool = {},
                            !.requests = <<>>]]
    IN [g |-> updateStateInLock(g1, p),
        fr |-> IF ids = <<>> THEN <<>> ELSE <<Frame("setError", p, 0, 0, status, ids)>>,
        win |-> TRUE]

\* triggerShutdown that runs the failure protocol without entering shutdown.
triggerShutdown_staysOpen(G, p, status) ==
    processFailure(G, p, status)

\* SpecificPool::triggerShutdown
triggerShutdown(G, p, status) ==
    processFailure([G EXCEPT !.pools[p].state = "kInShutdown",
                             !.pools[p].droppedProcessingPool = {}], p, status)

\* The tail of fulfillRequests: the controller update and the club's spawn pass.
fulfillTail(G, p, ch) ==
    LET g1 == updateController(G, p)
        members == SeqOfSet(g1.clubs[g1.pools[p].controller].pools, ch.asc)
    IN [g |-> g1,
        fr |-> <<Frame("spawnAll", p, 0, g1.pools[p].controller, "", members)>>,
        win |-> FALSE]

\* SpecificPool::fulfillRequests, one turn of its loop: up to the unlock
\* around emplaceValue.
fulfillRequests(G, p, ch) ==
    IF G.pools[p].requests = <<>>
    THEN fulfillTail(G, p, ch)
    ELSE LET t == tryGetInternal(G, p, ch.k)
         IN IF t.conn = NoConn
            THEN fulfillTail(t.g, p, ch)
            ELSE LET r == t.g.pools[p].requests[1]
                 IN [g |-> [t.g EXCEPT !.pools[p].requests = pop_heap(@)],
                     fr |-> <<Frame("emplaceValue", p, t.conn.id, r.id, OK, <<>>),
                              F("fulfillRequests.relock", p)>>,
                     win |-> TRUE]

\* addToReady without the call of fulfillRequests.
addToReady_noFulfill(G, p, conn, ch) ==
    LET c == [conn EXCEPT !.timer = now + opt.refreshRequirement]
    IN Ret([G EXCEPT !.pools[p].readyPool = <<c>> \o @])

\* SpecificPool::addToReady
addToReady(G, p, conn, ch) ==
    LET c == [conn EXCEPT !.timer = now + opt.refreshRequirement]
    IN fulfillRequests([G EXCEPT !.pools[p].readyPool = <<c>> \o @], p, ch)

\* returnConnection that lets a connection lapse only above the minimum.
returnConnection_lapsesAboveMin(G, p, connPtr, status, ch) ==
    LET pl == G.pools[p]
        found == WithId(pl.checkedOutPool, connPtr)
    IN IF found = {}
       THEN Ret(Fault(G, "returnConnection: invariant(conn)"))
       ELSE LET conn == CHOOSE c \in found : TRUE
                needsRefreshTP == conn.lastUsed + opt.refreshRequirement
                g1 == updateStateInLock(
                          [G EXCEPT !.pools[p].checkedOutPool = @ \ {conn}], p)
                pl1 == g1.pools[p]
            IN IF conn.gen # pl1.generation
               THEN Ret(g1)
               ELSE IF status # OK
               THEN Ret(g1)
               ELSE IF needsRefreshTP <= now
               THEN IF openConnections(pl1) > g1.clubs[pl1.controller].minConns
                    THEN Ret(g1)
                    ELSE [g |-> [g1 EXCEPT !.pools[p].processingPool = @ \cup {conn},
                                           !.inflight = @ \cup {[p |-> p, c |-> conn.id]}],
                          fr |-> <<F("returnConnection.relock", p)>>,
                          win |-> TRUE]
               ELSE LET a == addToReady(g1, p, conn, ch)
                    IN [g |-> a.g,
                        fr |-> a.fr \o <<F("returnConnection.relock", p)>>,
                        win |-> a.win]

\* SpecificPool::returnConnection, up to the unlock around refresh().
returnConnection(G, p, connPtr, status, ch) ==
    LET pl == G.pools[p]
        found == WithId(pl.checkedOutPool, connPtr)
    IN IF found = {}
       THEN Ret(Fault(G, "returnConnection: invariant(conn)"))
       ELSE LET conn == CHOOSE c \in found : TRUE
                needsRefreshTP == conn.lastUsed + opt.refreshRequirement
                g1 == updateStateInLock(
                          [G EXCEPT !.pools[p].checkedOutPool = @ \ {conn}], p)
                pl1 == g1.pools[p]
            IN IF conn.gen # pl1.generation
               THEN Ret(g1)
               ELSE IF status # OK
               THEN Ret(g1)
               ELSE IF needsRefreshTP <= now
               THEN IF openConnections(pl1) >= g1.clubs[pl1.controller].minConns
                    THEN Ret(g1)
                    ELSE [g |-> [g1 EXCEPT !.pools[p].processingPool = @ \cup {conn},
                                           !.inflight = @ \cup {[p |-> p, c |-> conn.id]}],
                          fr |-> <<F("returnConnection.relock", p)>>,
                          win |-> TRUE]
               ELSE LET a == addToReady(g1, p, conn, ch)
                    IN [g |-> a.g,
                        fr |-> a.fr \o <<F("returnConnection.relock", p)>>,
                        win |-> a.win]

\* finishRefresh that passes a time-limit failure on like any other failure.
finishRefresh_cascadesOnTimeLimit(G, p, connPtr, status, ch) ==
    LET pl == G.pools[p]
        inProc == WithId(pl.processingPool, connPtr)
        inDrop == WithId(pl.droppedProcessingPool, connPtr)
        conn == IF inProc # {} THEN CHOOSE c \in inProc : TRUE
                ELSE IF inDrop # {} THEN CHOOSE c \in inDrop : TRUE
                ELSE NoConn
        g1 == IF inProc # {}
              THEN [G EXCEPT !.pools[p].processingPool = @ \ inProc]
              ELSE [G EXCEPT !.pools[p].droppedProcessingPool = @ \ inDrop]
    IN IF inProc # {} /\ pl.state = "kInShutdown"
       THEN Ret(Fault(G, "takeFromProcessingPool: invariant(_state != kInShutdown)"))
       ELSE IF pl.state = "kInShutdown"
       THEN Ret(g1)
       ELSE IF conn = NoConn
       THEN Ret(Fault(G, "finishRefresh: null connection"))
       ELSE IF status = OK
       THEN IF conn.gen # pl.generation
            THEN [g |-> g1, fr |-> <<F("spawnConnections", p)>>, win |-> FALSE]
            ELSE addToReady(g1, p, conn, ch)
       ELSE processFailure(g1, p, status)

\* finishRefresh without the test of the connection's generation.
finishRefresh_anyGeneration(G, p, connPtr, status, ch) ==
    LET pl == G.pools[p]
        inProc == WithId(pl.processingPool, connPtr)
        inDrop == WithId(pl.droppedProcessingPool, connPtr)
        conn == IF inProc # {} THEN CHOOSE c \in inProc : TRUE
                ELSE IF inDrop # {} THEN CHOOSE c \in inDrop : TRUE
                ELSE NoConn
        g1 == IF inProc # {}
              THEN [G EXCEPT !.pools[p].processingPool = @ \ inProc]
              ELSE [G EXCEPT !.pools[p].droppedProcessingPool = @ \ inDrop]
    IN IF inProc # {} /\ pl.state = "kInShutdown"
       THEN Ret(Fault(G, "takeFromProcessingPool: invariant(_state != kInShutdown)"))
       ELSE IF pl.state = "kInShutdown"
       THEN Ret(g1)
       ELSE IF conn = NoConn
       THEN Ret(Fault(G, "finishRefresh: null connection"))
       ELSE IF status = OK
       THEN addToReady(g1, p, conn, ch)
       ELSE IF status = TimeLimit
       THEN [g |-> g1, fr |-> <<F("spawnConnections", p)>>, win |-> FALSE]
       ELSE processFailure(g1, p, status)

\* SpecificPool::takeFromProcessingPool and SpecificPool::finishRefresh
finishRefresh(G, p, connPtr, status, ch) ==
    LET pl == G.pools[p]
        inProc == WithId(pl.processingPool, connPtr)
        inDrop == WithId(pl.droppedProcessingPool, connPtr)
        conn == IF inProc # {} THEN CHOOSE c \in inProc : TRUE
                ELSE IF inDrop # {} THEN CHOOSE c \in inDrop : TRUE
                ELSE NoConn
        g1 == IF inProc # {}
              THEN [G EXCEPT !.pools[p].processingPool = @ \ inProc]
              ELSE [G EXCEPT !.pools[p].droppedProcessingPool = @ \ inDrop]
    IN IF inProc # {} /\ pl.state = "kInShutdown"
       THEN Ret(Fault(G, "takeFromProcessingPool: invariant(_state != kInShutdown)"))
       ELSE IF pl.state = "kInShutdown"
       THEN Ret(g1)
       ELSE IF conn = NoConn
       THEN Ret(Fault(G, "finishRefresh: null connection"))
       ELSE IF status = OK
       THEN IF conn.gen # pl.generation
            THEN [g |-> g1, fr |-> <<F("spawnConnections", p)>>, win |-> FALSE]
            ELSE addToReady(g1, p, conn, ch)
       ELSE IF status = TimeLimit
       THEN [g |-> g1, fr |-> <<F("spawnConnections", p)>>, win |-> FALSE]
       ELSE processFailure(g1, p, status)

\* The refresh timer addToReady arms on a ready connection.
idleRefresh(G, p, connPtr, ch) ==
    LET pl == G.pools[p]
        i == CHOOSE j \in 1..Len(pl.readyPool) : pl.readyPool[j].id = connPtr
    IN IF ~InReady(pl, connPtr)
       THEN Ret(G)
       ELSE LET conn == [pl.readyPool[i] EXCEPT !.timer = NoTime]
                g1 == [G EXCEPT !.pools[p].readyPool =
                          SubSeq(@, 1, i - 1) \o SubSeq(@, i + 1, Len(@))]
            IN IF pl.state = "kInShutdown"
               THEN Ret(g1)
               ELSE returnConnection(
                        [g1 EXCEPT !.pools[p].checkedOutPool = @ \cup {conn}],
                        p, connPtr, OK, ch)

\* The request timer's callback, one turn of its loop: up to the unlock
\* around setError.
requestTimerLoop(G, p, localNow) ==
    LET pl == G.pools[p]
    IN IF Len(pl.requests) > 0 /\ pl.requests[1].deadline <= localNow
       THEN [g |-> [G EXCEPT !.pools[p].requests = pop_heap(@)],
             fr |-> <<Frame("setError", p, 0, 0, TimeLimit, <<pl.requests[1].id>>),
                      Frame("requestTimer.relock", p, localNow, 0, "", <<>>)>>,
             win |-> TRUE]
       ELSE Ret(updateStateInLock(G, p))

\* SpecificPool::checkShutdown
checkShutdown(G, p, ch) ==
    LET members == G.clubs[G.pools[p].controller].pools
    IN IF \E q \in members : G.pools[q].state # "kHostTimedOut"
       THEN Ret(G)
       ELSE [g |-> G,
             fr |-> <<Frame("checkShutdown.loop", 0, 0, G.pools[p].controller, TimeLimit,
                            SeqOfSet(members, ch.asc))>>,
             win |-> FALSE]

\* SpecificPool::checkShutdown, one turn of its second loop, which walks
\* _controller->pools itself (f.r is the club, f.l what the walk has ahead).
\* A pool that delists in triggerShutdown erases itself from that set, and
\* the loop's iterator with it (f.c = 1): the increment that follows reads
\* the erased node, so the walk may go on as if nothing was erased, end, or
\* take the process down.  A valid iterator skips what others erased.
checkShutdownLoop(G, f, ch) ==
    LET staleEnd == f.c = 1 /\ ch.it = "end"
        l == IF f.c = 1 THEN f.l
             ELSE SelectSeq(f.l, LAMBDA q : q \in G.clubs[f.r].pools)
    IN IF f.c = 1 /\ ch.it = "fault"
       THEN Ret(Fault(G, "checkShutdown: increment of an erased iterator"))
       ELSE IF staleEnd \/ l = <<>>
       THEN Ret(G)
       ELSE LET p == Head(l)
                r == triggerShutdown(G, p, f.st)
                erased == p \in G.clubs[f.r].pools /\ p \notin r.g.clubs[f.r].pools
            IN [g |-> r.g,
                fr |-> r.fr \o (IF Tail(l) = <<>> /\ ~erased THEN <<>>
                                ELSE <<[f EXCEPT !.l = Tail(l),
                                                 !.c = IF erased THEN 1 ELSE 0]>>),
                win |-> TRUE]

\* The host timeout's callback.
hostTimeout(G, p, ch) ==
    IF G.pools[p].state # "kIdle"
    THEN Ret(G)
    ELSE checkShutdown([G EXCEPT !.pools[p].state = "kHostTimedOut"], p, ch)

\* ConnectionPool::dropConnections(TagMask), one turn of its loop over the
\* snapshot: the lock is taken for one pool and given up after it.
dropConnectionsByTags(G, f) ==
    LET p == Head(f.l)
        rest == IF Tail(f.l) = <<>> THEN <<>> ELSE <<[f EXCEPT !.l = Tail(f.l)]>>
    IN IF matchesTags(G.pools[p], f.c)
       THEN [g |-> G, fr |-> rest, win |-> TRUE]
       ELSE LET r == processFailure(G, p, Dropped)
            IN [g |-> r.g, fr |-> r.fr \o rest, win |-> TRUE]

----------------------------------------------------------------------------
(* Calls made while the lock is dropped. *)

NewPromise(p, deadline) ==
    [p |-> p, deadline |-> deadline, st |-> "pending", code |-> "", n |-> 0, c |-> 0]

\* promise.emplaceValue(handle): the caller now holds the handle.
emplaceValue(G, f) ==
    [g |-> [G EXCEPT !.promises[f.r] = [@ EXCEPT !.st = "value", !.n = @ + 1, !.c = f.c],
                     !.handles = @ \cup {[p |-> f.p, c |-> f.c]}],
     fr |-> <<>>, win |-> TRUE]

\* promise.setError(status), for the first request of the list.
setError(G, f) ==
    [g |-> [G EXCEPT !.promises[Head(f.l)] =
                        [@ EXCEPT !.st = "error", !.code = f.st, !.n = @ + 1]],
     fr |-> IF Tail(f.l) = <<>> THEN <<>> ELSE <<[f EXCEPT !.l = Tail(f.l)]>>,
     win |-> TRUE]

OffLock(f) == f.op \in {"emplaceValue", "setError"}

----------------------------------------------------------------------------
(* Running a task. *)

\* What the executor's thread reads through the deleter's `conn`, which
\* makeHandle's callback captured by reference: the parameter is gone when
\* the callback runs, so the read may yield any pointer.
DanglingConn(f, ch) == ch.ptr

\* The loop of fulfillRequests over _controller->pools, one turn of it:
\* f.l is what the walk has ahead, f.r the club, f.c = 1 when the iterator
\* was invalidated while a spawnConnections of the walk had given the lock
\* up; going on from such an iterator is undefined.
spawnAll(G, f, ch) ==
    IF f.c = 1 /\ ch.it = "fault"
    THEN Ret(Fault(G, "fulfillRequests: increment of an invalid iterator"))
    ELSE IF (f.c = 1 /\ ch.it = "end") \/ f.l = <<>>
    THEN Ret(G)
    ELSE [g |-> G,
          fr |-> <<F("spawnConnections", Head(f.l)), [f EXCEPT !.l = Tail(f.l)]>>,
          win |-> FALSE]

\* One frame, under the lock.
ExecFrame(G, f, ch) ==
    CASE f.op = "spawnConnections" -> spawnConnections(G, f.p)
      [] f.op = "spawnAll" -> spawnAll(G, f, ch)
      [] f.op = "fulfillRequests.relock" ->
            fulfillRequests(updateStateInLock(G, f.p), f.p, ch)
      [] f.op = "returnConnection.relock" -> Ret(updateStateInLock(G, f.p))
      [] f.op = "returnConnection" ->
            returnConnection(G, f.p, DanglingConn(f, ch), f.st, ch)
      [] f.op = "finishRefresh" -> finishRefresh(G, f.p, f.c, f.st, ch)
      [] f.op = "idleRefresh" -> idleRefresh(G, f.p, f.c, ch)
      [] f.op = "requestTimer" -> requestTimerLoop(G, f.p, now)
      [] f.op = "requestTimer.relock" -> requestTimerLoop(G, f.p, f.c)
      [] f.op = "hostTimeout" -> hostTimeout(G, f.p, ch)
      [] f.op = "checkShutdown.loop" -> checkShutdownLoop(G, f, ch)
      [] f.op = "shutdown.return" -> Ret(G)
      [] f.op = "dropConnections" -> dropConnectionsByTags(G, f)
      [] f.op = "dropConnections.return" -> Ret(G)
      [] f.op = "triggerShutdown" ->
            LET r == triggerShutdown(G, Head(f.l), f.st)
            IN [g |-> r.g,
                fr |-> r.fr \o (IF Tail(f.l) = <<>> THEN <<>>
                                ELSE <<[f EXCEPT !.l = Tail(f.l)]>>),
                win |-> TRUE]

\* A critical section: frames run until one drops the lock, the stack is
\* empty, or the process has died.
RECURSIVE Run(_, _, _)
Run(G, stack, ch) ==
    IF stack = <<>> \/ G.fault # "none" \/ G.oob
    THEN [g |-> G, fr |-> stack]
    ELSE LET r == ExecFrame(G, Head(stack), ch)
         IN IF r.win
            THEN [g |-> r.g, fr |-> r.fr \o Tail(stack)]
            ELSE Run(r.g, r.fr \o Tail(stack), ch)

\* A task's next step: the guard's increment on entry, one critical section
\* or one call off the lock, and the guard's decrement when nothing is left.
StepTask(G, t, ch) ==
    LET g1 == [G EXCEPT !.tasks = @ (-) SetToBag({t})]
        g2 == IF t.gp # NoPool /\ ~t.st
              THEN [g1 EXCEPT !.pools[t.gp].activeClients = @ + 1] ELSE g1
        r == IF OffLock(Head(t.fr))
             THEN LET o == IF Head(t.fr).op = "emplaceValue"
                           THEN emplaceValue(g2, Head(t.fr)) ELSE setError(g2, Head(t.fr))
                  IN [g |-> o.g, fr |-> o.fr \o Tail(t.fr)]
             ELSE Run(g2, t.fr, ch)
    IN IF r.g.fault # "none" \/ r.g.oob
       THEN r.g
       ELSE IF r.fr = <<>>
       THEN IF t.gp # NoPool
            THEN [r.g EXCEPT !.pools[t.gp].activeClients = @ - 1] ELSE r.g
       ELSE Schedule(r.g, [t EXCEPT !.st = TRUE, !.fr = r.fr])

----------------------------------------------------------------------------
(* ConnectionPool. *)

\* ConnectionPool::_getPool
getPool(G, h) ==
    IF G.poolMap[h] # NoPool
    THEN [g |-> G, p |-> G.poolMap[h]]
    ELSE LET p == Len(G.pools) + 1
             club == Len(G.clubs) + 1
         IN [g |-> [G EXCEPT !.pools = Append(@, SpecificPool(h, club)),
                             !.clubs = Append(@, PoolClub({p})),
                             !.poolMap[h] = p,
                             !.oob = @ \/ p > MaxPools],
             p |-> p]

\* getConnection that takes the caller's timeout as it is.
getConnection_noClamp(G, p, timeout, k) ==
    LET r == Len(G.promises) + 1
    IN IF G.pools[p].state = "kInShutdown"
       THEN Fault(G, "getConnection: invariant(_state != kInShutdown)")
       ELSE LET t == tryGetInternal(G, p, k)
            IN IF t.conn # NoConn
               THEN [t.g EXCEPT
                        !.promises = Append(@, [NewPromise(p, NoTime) EXCEPT
                                                   !.st = "value", !.n = 1,
                                                   !.c = t.conn.id]),
                        !.handles = @ \cup {[p |-> p, c |-> t.conn.id]}]
               ELSE LET expiration == now + timeout
                        g1 == [t.g EXCEPT
                                 !.pools[p].requests =
                                     push_heap(Append(@, [deadline |-> expiration, id |-> r])),
                                 !.promises = Append(@, NewPromise(p, expiration))]
                    IN Schedule(updateStateInLock(g1, p),
                                Guarded(p, <<F("spawnConnections", p)>>))

\* SpecificPool::getConnection, with the promise of the future it returns.
getConnection(G, p, timeout, k) ==
    LET r == Len(G.promises) + 1
    IN IF G.pools[p].state = "kInShutdown"
       THEN Fault(G, "getConnection: invariant(_state != kInShutdown)")
       ELSE LET t == tryGetInternal(G, p, k)
            IN IF t.conn # NoConn
               THEN [t.g EXCEPT
                        !.promises = Append(@, [NewPromise(p, NoTime) EXCEPT
                                                   !.st = "value", !.n = 1,
                                                   !.c = t.conn.id]),
                        !.handles = @ \cup {[p |-> p, c |-> t.conn.id]}]
               ELSE LET to == IF timeout < 0 \/ timeout > opt.refreshTimeout
                              THEN opt.refreshTimeout ELSE timeout
                        expiration == now + to
                        g1 == [t.g EXCEPT
                                 !.pools[p].requests =
                                     push_heap(Append(@, [deadline |-> expiration, id |-> r])),
                                 !.promises = Append(@, NewPromise(p, expiration))]
                    IN Schedule(updateStateInLock(g1, p),
                                Guarded(p, <<F("spawnConnections", p)>>))

\* tryGetConnection that falls back to getConnection's spawn pass.
tryGetConnection_spawns(G, p, k) ==
    IF G.pools[p].state = "kInShutdown"
    THEN Fault(G, "tryGetConnection: invariant(_state != kInShutdown)")
    ELSE IF Len(G.pools[p].requests) > 0
    THEN G
    ELSE LET t == tryGetInternal(G, p, k)
             g1 == updateStateInLock(t.g, p)
         IN IF t.conn = NoConn THEN Schedule(g1, Guarded(p, <<F("spawnConnections", p)>>))
            ELSE [g1 EXCEPT !.handles = @ \cup {[p |-> p, c |-> t.conn.id]}]

\* SpecificPool::tryGetConnection
tryGetConnection(G, p, k) ==
    IF G.pools[p].state = "kInShutdown"
    THEN Fault(G, "tryGetConnection: invariant(_state != kInShutdown)")
    ELSE IF Len(G.pools[p].requests) > 0
    THEN G
    ELSE LET t == tryGetInternal(G, p, k)
             g1 == updateStateInLock(t.g, p)
         IN IF t.conn = NoConn THEN g1
            ELSE [g1 EXCEPT !.handles = @ \cup {[p |-> p, c |-> t.conn.id]}]

Commit(g) ==
    /\ ~g.oob
    /\ pools' = g.pools
    /\ poolMap' = g.poolMap
    /\ clubs' = g.clubs
    /\ poolClubs' = g.poolClubs
    /\ tasks' = g.tasks
    /\ promises' = g.promises
    /\ handles' = g.handles
    /\ inflight' = g.inflight
    /\ fault' = g.fault


\* ConnectionPool::_getPoolClub
getPoolClub(G, name) ==
    IF G.poolClubs[name] # NoClub THEN G
    ELSE [G EXCEPT !.clubs = Append(@, PoolClub({})),
                   !.poolClubs[name] = Len(G.clubs) + 1]

\* SpecificPool::setController
setController(G, p, club) ==
    [G EXCEPT !.pools[p].controller = club, !.clubs[club].pools = @ \cup {p}]

\* SpecificPool::resetController
resetController(G, p) ==
    setController([G EXCEPT !.clubs = Append(@, PoolClub({}))], p, Len(G.clubs) + 1)

\* ConnectionPool::handleConfig, the loop over the new config's servers.
RECURSIVE addServers(_, _, _)
addServers(G, club, servers) ==
    IF servers = {} THEN G
    ELSE LET h == CHOOSE x \in servers : TRUE
             a == getPool(G, h)
         IN addServers(setController(a.g, a.p, club), club, servers \ {h})

\* ConnectionPool::handleConfig, the loop over the pools that left the club.
RECURSIVE resetControllers(_, _)
resetControllers(G, old) ==
    IF old = {} THEN G
    ELSE LET p == CHOOSE x \in old : TRUE
         IN resetControllers(resetController(G, p), old \ {p})

\* handleConfig that leaves the club's former members in it.
handleConfig_keepsOldMembers(G, name, servers) ==
    LET g0 == getPoolClub(G, name)
        club == g0.poolClubs[name]
        g1 == addServers(g0, club, servers)
        g3 == [g1 EXCEPT !.clubs[club].minConns = g1.clubs[club].defaultMinConns]
    IN IF g3.clubs[club].pools = {} THEN g3
       ELSE updateController(g3, CHOOSE q \in g3.clubs[club].pools : TRUE)

\* ConnectionPool::handleConfig
handleConfig(G, name, servers) ==
    LET g0 == getPoolClub(G, name)
        club == g0.poolClubs[name]
        oldPools == g0.clubs[club].pools
        g1 == addServers([g0 EXCEPT !.clubs[club].pools = {}], club, servers)
        g2 == resetControllers(g1, oldPools \ g1.clubs[club].pools)
        g3 == [g2 EXCEPT !.clubs[club].minConns = g2.clubs[club].defaultMinConns]
        vacated == {g0.pools[q].controller :
                    q \in {x \in DOMAIN g0.pools : g3.pools[x].controller
                                                       # g0.pools[x].controller}}
        g4 == walksExchanged(g3, {club} \cup vacated)
    IN IF g4.clubs[club].pools = {} THEN g4
       ELSE updateController(g4, CHOOSE q \in g4.clubs[club].pools : TRUE)

\* ConnectionPool::handlePrimary.  _tryGetPool returns an empty pointer for a
\* host without a pool, and the call through it reads the members of a null
\* object: the process dies.
handlePrimary(G, name, host) ==
    LET g0 == getPoolClub(G, name)
        club == g0.poolClubs[name]
        g1 == [g0 EXCEPT !.clubs[club].primary = host]
    IN IF g0.clubs[club].primary = host THEN g0
       ELSE IF g1.poolMap[host] = NoPool
       THEN Fault(g1, "handlePrimary: call through a null pool")
       ELSE updateController(g1, g1.poolMap[host])

----------------------------------------------------------------------------
(* The steps. *)

SetNames == {"rs", "rs2"}
Statuses == {OK, TimeLimit, HostUnreachable}
PoolIds == 1..Len(pools)
Listed == {poolMap[h] : h \in Hosts} \ {NoPool}

\* The task is inside spawnConnections for a walk of fulfillRequests whose
\* iterator is invalid.
InvalidWalk(t) ==
    Len(t.fr) >= 2 /\ t.fr[2].op = "spawnAll" /\ t.fr[2].c = 1

\* What the environment decides within a critical section: how many ready
\* connections report unhealthy (k), the iteration order of a club's pool
\* set (asc), the pointer read through makeHandle's dangling reference
\* (ptr), and what the increment of an erased or invalid iterator does (it).
Choices(f) ==
    [k : IF f.op \in {"returnConnection", "finishRefresh", "idleRefresh",
                      "fulfillRequests.relock"} /\ left.unhealthy > 0
         THEN 0..MaxCreated ELSE {0},
     asc : IF f.op \in {"returnConnection", "finishRefresh", "idleRefresh",
                        "fulfillRequests.relock", "hostTimeout"}
           THEN BOOLEAN ELSE {TRUE},
     ptr : IF f.op # "returnConnection" THEN {0}
           ELSE IF left.wild > 0 THEN {-1} \cup (1..MaxCreated) ELSE {f.c},
     it : IF left.wild > 0
             /\ \/ f.op = "checkShutdown.loop" /\ f.c = 1
                \/ f.op = "spawnConnections"
                      /\ \E t \in BagToSet(tasks) : InvalidWalk(t) /\ Head(t.fr) = f
          THEN {"next", "end", "fault"} ELSE {"next"}]

Unhealthy == IF left.unhealthy > 0 THEN 0..MaxCreated ELSE {0}

\* The modes the callers pass, and the outcomes of a comparison of the mode
\* with the _sslMode of the pool of h.
SSLModes == IF left.ssl > 0 THEN {kGlobalSSLMode, kEnableSSL} ELSE {kGlobalSSLMode}
Comparisons(h) ==
    IF poolMap[h] # NoPool /\ pools[poolMap[h]].sslMode = Indeterminate
    THEN BOOLEAN ELSE {TRUE}

\* ConnectionPool::get
Get(h, timeout, k) ==
    /\ fault = "none"
    /\ h \in opt.hosts
    /\ timeout \in opt.timeouts
    /\ left.get > 0
    /\ \E sslMode \in SSLModes, same \in Comparisons(h) :
           /\ LET a == getPool(G0, h)
                  g1 == setOrCheckSSLMode(a.g, a.p, sslMode, same)
              IN Commit(IF g1.fault # "none" THEN g1
                        ELSE getConnection(g1, a.p, timeout, k))
           /\ left' = [left EXCEPT !.get = @ - 1,
                                   !.unhealthy = IF k > 0 THEN @ - 1 ELSE @,
                                   !.ssl = IF sslMode # kGlobalSSLMode THEN @ - 1 ELSE @]
    /\ UNCHANGED <<params, list, opt, now>>

\* ConnectionPool::tryGet
TryGet(h, k) ==
    /\ fault = "none"
    /\ h \in opt.hosts
    /\ left.tryGet > 0
    /\ \E sslMode \in SSLModes, same \in Comparisons(h) :
           /\ IF poolMap[h] = NoPool
              THEN Commit(G0)
              ELSE LET g1 == fassertSSLMode(G0, poolMap[h], sslMode, same)
                   IN Commit(IF g1.fault # "none" THEN g1
                             ELSE tryGetConnection(g1, poolMap[h], k))
           /\ left' = [left EXCEPT !.tryGet = @ - 1,
                                   !.unhealthy = IF k > 0 THEN @ - 1 ELSE @,
                                   !.ssl = IF sslMode # kGlobalSSLMode THEN @ - 1 ELSE @]
    /\ UNCHANGED <<params, list, opt, now>>

\* A caller lets go of a handle: makeHandle's deleter schedules the return.
\* Before that the caller may have called indicateUsed() and indicateSuccess()
\* or indicateFailure() on the connection; if it called neither of the last
\* two, the status is the Unknown that tryGetInternal's resetToUnknown() left.
DropHandle(hd, status, used) ==
    /\ fault = "none"
    /\ hd \in handles
    /\ left.release > 0
    /\ status # OK => left.fail > 0
    /\ LET g1 == [G0 EXCEPT
                    !.handles = @ \ {hd},
                    !.pools[hd.p].checkedOutPool =
                        {IF c.id = hd.c /\ used THEN [c EXCEPT !.lastUsed = now] ELSE c
                            : c \in @}]
       IN Commit(Schedule(g1, Guarded(hd.p, <<Frame("returnConnection", hd.p, hd.c, 0,
                                                    status, <<>>)>>)))
    /\ left' = [left EXCEPT !.release = @ - 1,
                            !.fail = IF status # OK THEN @ - 1 ELSE @]
    /\ UNCHANGED <<params, list, opt, now>>

\* A setup() or refresh() finishes: the connection calls back with a status.
\* A connection that finished with OK counts as used now.
Complete(io, status) ==
    /\ fault = "none"
    /\ io \in inflight
    /\ left.complete > 0
    /\ status # OK => left.fail > 0
    /\ LET stamp(S) == {IF c.id = io.c /\ status = OK
                        THEN [c EXCEPT !.lastUsed = now] ELSE c : c \in S}
           g1 == [G0 EXCEPT
                    !.inflight = @ \ {io},
                    !.pools[io.p].processingPool = stamp(@),
                    !.pools[io.p].droppedProcessingPool = stamp(@)]
       IN Commit(Schedule(g1, Guarded(io.p, <<Frame("finishRefresh", io.p, io.c, 0,
                                                    status, <<>>)>>)))
    /\ left' = [left EXCEPT !.complete = @ - 1,
                            !.fail = IF status # OK THEN @ - 1 ELSE @]
    /\ UNCHANGED <<params, list, opt, now>>

\* The pool's _requestTimer fires: its callback waits for the lock.
FireRequestTimer(p) ==
    /\ fault = "none"
    /\ p \in PoolIds
    /\ pools[p].requestTimer.kind # "none"
    /\ pools[p].requestTimer.at <= now
    /\ LET g1 == [G0 EXCEPT !.pools[p].requestTimer = NoTimer]
           t == IF pools[p].requestTimer.kind = "request"
                THEN Guarded(p, <<F("requestTimer", p)>>)
                ELSE Unguarded(<<F("hostTimeout", p)>>)
       IN Commit(Schedule(g1, t))
    /\ UNCHANGED <<params, list, opt, now, left>>

\* The refresh timer of a ready connection fires.
FireRefreshTimer(p, i) ==
    /\ fault = "none"
    /\ p \in PoolIds
    /\ i \in 1..Len(pools[p].readyPool)
    /\ pools[p].readyPool[i].timer # NoTime
    /\ pools[p].readyPool[i].timer <= now
    /\ LET g1 == [G0 EXCEPT !.pools[p].readyPool[i].timer = NoTime]
           c == pools[p].readyPool[i].id
       IN Commit(Schedule(g1, Guarded(p, <<Frame("idleRefresh", p, c, 0, "", <<>>)>>)))
    /\ UNCHANGED <<params, list, opt, now, left>>

\* The clock advances.
Tick ==
    /\ fault = "none"
    /\ left.tick > 0
    /\ now' = now + 1
    /\ left' = [left EXCEPT !.tick = @ - 1]
    /\ UNCHANGED <<params, list, opt, pools, poolMap, clubs, poolClubs, tasks, promises, handles,
                   inflight, fault>>

\* ConnectionPool::dropConnections(const HostAndPort&)
DropConnections(h) ==
    /\ fault = "none"
    /\ h \in opt.hosts
    /\ left.dropConnections > 0
    /\ IF poolMap[h] = NoPool
       THEN Commit(G0)
       ELSE LET r == processFailure(G0, poolMap[h], Dropped)
            IN Commit(IF r.fr = <<>> THEN r.g ELSE Schedule(r.g, Unguarded(r.fr)))
    /\ left' = [left EXCEPT !.dropConnections = @ - 1]
    /\ UNCHANGED <<params, list, opt, now>>

\* ConnectionPool::shutdown: the snapshot of _pools; the loop follows, and
\* after the last triggerShutdown has taken the lock again, the return, up to
\* which the local `pools` holds the snapshot.  The owner of the pool calls
\* shutdown() again only after the call before has returned.
Shutdown(asc) ==
    /\ fault = "none"
    /\ left.shutdown > 0
    /\ \A t \in BagToSet(tasks) : \A j \in DOMAIN t.fr : t.fr[j].op # "shutdown.return"
    /\ Commit(IF Listed = {} THEN G0
              ELSE Schedule(G0, Unguarded(<<Frame("triggerShutdown", 0, 0, 0,
                                                  ShutdownInProgress,
                                                  SeqOfSet(Listed, asc)),
                                            Frame("shutdown.return", 0, 0, 0,
                                                  ShutdownInProgress,
                                                  SeqOfSet(Listed, asc))>>)))
    /\ left' = [left EXCEPT !.shutdown = @ - 1]
    /\ UNCHANGED <<params, list, opt, now>>

\* ConnectionPool::dropConnections(TagMask): the snapshot of _pools; the loop
\* follows, and the return, up to which the local `pools` holds the snapshot.
DropConnectionsByTags(tags, asc) ==
    /\ fault = "none"
    /\ left.dropTags > 0
    /\ Commit(IF Listed = {} THEN G0
              ELSE Schedule(G0, Unguarded(<<Frame("dropConnections", 0, tags, 0, Dropped,
                                                  SeqOfSet(Listed, asc)),
                                            Frame("dropConnections.return", 0, tags, 0,
                                                  Dropped, SeqOfSet(Listed, asc))>>)))
    /\ left' = [left EXCEPT !.dropTags = @ - 1]
    /\ UNCHANGED <<params, list, opt, now>>

\* ConnectionPool::mutateTags: mutateFunc may return any tag word.
MutateTags(h, tags) ==
    /\ fault = "none"
    /\ h \in opt.hosts
    /\ left.mutateTags > 0
    /\ Commit(IF poolMap[h] = NoPool THEN G0
              ELSE [G0 EXCEPT !.pools[poolMap[h]].tags = tags])
    /\ left' = [left EXCEPT !.mutateTags = @ - 1]
    /\ UNCHANGED <<params, list, opt, now>>

\* ConnectionPool::handleConfig
HandleConfig(name, servers) ==
    /\ fault = "none"
    /\ left.config > 0
    /\ name \in opt.sets
    /\ servers \subseteq opt.hosts
    /\ Commit(handleConfig(G0, name, servers))
    /\ left' = [left EXCEPT !.config = @ - 1]
    /\ UNCHANGED <<params, list, opt, now>>

\* ConnectionPool::handlePrimary
HandlePrimary(name, host) ==
    /\ fault = "none"
    /\ left.primary > 0
    /\ name \in opt.sets
    /\ host \in opt.hosts
    /\ Commit(handlePrimary(G0, name, host))
    /\ left' = [left EXCEPT !.primary = @ - 1]
    /\ UNCHANGED <<params, list, opt, now>>

\* A scheduled callback runs, or a running one goes on after a window.
RunTask(t, ch) ==
    /\ fault = "none"
    /\ ch.it # "next" => Head(t.fr).op = "checkShutdown.loop" \/ InvalidWalk(t)
    /\ Commit(StepTask(G0, t, ch))
    /\ left' = [left EXCEPT
                  !.unhealthy = IF ch.k > 0 THEN @ - 1 ELSE @,
                  !.wild = IF \/ Head(t.fr).op = "returnConnection" /\ ch.ptr # Head(t.fr).c
                              \/ ch.it # "next"
                           THEN @ - 1 ELSE @]
    /\ UNCHANGED <<params, list, opt, now>>

----------------------------------------------------------------------------
(* The specification. *)

\* ConnectionPool::Options, the endpoints and the timeouts callers pass to
\* get(), and the replica sets whose configs and primaries are reported.
Options(minC, maxC, maxCing, hs) ==
    [minConnections |-> minC, maxConnections |-> maxC, maxConnecting |-> maxCing,
     refreshTimeout |-> 1, refreshRequirement |-> 2, hostTimeout |-> 3, hosts |-> hs,
     timeouts |-> Timeouts, sets |-> {"rs"}]

\* What the environment does in one run, by kind of step.
Budget ==
    [get |-> 0, tryGet |-> 0, release |-> 0, complete |-> 0, fail |-> 0, tick |-> 0,
     dropConnections |-> 0, shutdown |-> 0, config |-> 0, unhealthy |-> 0, wild |-> 0,
     dropTags |-> 0, mutateTags |-> 0, primary |-> 0, ssl |-> 0]

\* The runs explored: the options the pool is constructed with, and what its
\* callers, its connections and the clock do.  The runs with MaxGets calls of
\* get() are the ones about the order and the fate of the waiters; the others
\* need two waiters and no more.
Scenarios ==
    {\* waiters without a deadline in reach, two connections, one handle returned
     [opt |-> [Options(1, 2, 2, {"h1"}) EXCEPT !.timeouts = {-1}],
      left |-> [Budget EXCEPT !.get = MaxGets, !.complete = MaxCompletions,
                              !.release = 1]],
     \* deadlines pass while the gets wait
     [opt |-> Options(1, 2, 2, {"h1"}),
      left |-> [Budget EXCEPT !.get = MaxGets, !.complete = 1, !.tick = 1]],
     \* a drop of the host's connections under the waiters
     [opt |-> Options(1, 2, 2, {"h1"}),
      left |-> [Budget EXCEPT !.get = MaxGets, !.dropConnections = 1]],
     \* shutdown() under the waiters
     [opt |-> Options(1, 2, 2, {"h1"}),
      left |-> [Budget EXCEPT !.get = MaxGets, !.shutdown = 1]],
     \* a drop of the host's connections and a failed setup, among two waiters
     [opt |-> Options(1, 2, 2, {"h1"}),
      left |-> [Budget EXCEPT !.get = 2, !.complete = 1, !.fail = 1,
                              !.dropConnections = 1]],
     \* minConnections above maxConnections
     [opt |-> Options(2, 1, 1, {"h1"}),
      left |-> [Budget EXCEPT !.get = 1, !.complete = MaxCompletions, !.release = 1]],
     \* one setup at a time, and a connection that idles until its refresh
     [opt |-> Options(2, 2, 1, {"h1"}),
      left |-> [Budget EXCEPT !.get = 1, !.complete = 2, !.release = 1,
                              !.tick = MaxTicks]],
     \* shutdown() while two callers still use the pool
     [opt |-> Options(1, 2, 2, {"h1"}),
      left |-> [Budget EXCEPT !.get = 2, !.complete = 1, !.shutdown = 1]],
     \* shutdown() called twice
     [opt |-> Options(1, 2, 2, {"h1"}),
      left |-> [Budget EXCEPT !.get = 1, !.shutdown = 2]],
     \* a drop by tags over two hosts, one of them tagged anew
     [opt |-> [Options(1, 1, 1, {"h1", "h2"}) EXCEPT !.timeouts = {-1}],
      left |-> [Budget EXCEPT !.get = 2, !.dropTags = 1, !.mutateTags = 1]],
     \* shutdown() while a drop by tags still holds its copy of the map
     [opt |-> [Options(1, 1, 1, {"h1"}) EXCEPT !.timeouts = {-1}],
      left |-> [Budget EXCEPT !.get = 2, !.shutdown = 1, !.dropTags = 1]],
     \* a club of two hosts that idles until the host timeout
     [opt |-> [Options(1, 1, 1, {"h1", "h2"}) EXCEPT !.hostTimeout = 1,
                                                     !.timeouts = {-1}],
      left |-> [Budget EXCEPT !.config = 1, !.dropConnections = 2, !.tick = 1,
                              !.get = 1, !.wild = 1]],
     \* a pool alone in its club that idles until the host timeout
     [opt |-> [Options(1, 2, 2, {"h1"}) EXCEPT !.hostTimeout = 1],
      left |-> [Budget EXCEPT !.get = 2, !.tick = 1, !.wild = 1]],
     \* a drop of the host's connections while a caller holds one, floor of two
     [opt |-> [Options(2, 2, 2, {"h1"}) EXCEPT !.timeouts = {-1}],
      left |-> [Budget EXCEPT !.get = 1, !.complete = 2, !.dropConnections = 1]],
     \* a replica set that loses a host in its second config
     [opt |-> [Options(1, 1, 1, {"h1", "h2"}) EXCEPT !.timeouts = {-1}],
      left |-> [Budget EXCEPT !.get = 1, !.complete = 1, !.config = 2]],
     \* a replica set that is told its primary
     [opt |-> [Options(1, 1, 1, {"h1", "h2"}) EXCEPT !.timeouts = {-1}],
      left |-> [Budget EXCEPT !.get = 1, !.complete = 1, !.config = 1, !.primary = 2]],
     \* callers that do not agree on the SSL mode of a host
     [opt |-> [Options(1, 2, 2, {"h1"}) EXCEPT !.timeouts = {-1}],
      left |-> [Budget EXCEPT !.get = 2, !.tryGet = 1, !.complete = 1, !.config = 1,
                              !.ssl = 1]],
     \* two connections that idle until their refresh, floor of one
     [opt |-> [Options(1, 2, 2, {"h1"}) EXCEPT !.timeouts = {-1},
                                                !.refreshRequirement = 1],
      left |-> [Budget EXCEPT !.get = 2, !.complete = 2, !.release = 2, !.tick = 1]],
     \* a connection given back ahead of an older one, then tryGet()
     [opt |-> [Options(2, 2, 2, {"h1"}) EXCEPT !.timeouts = {-1}],
      left |-> [Budget EXCEPT !.get = 1, !.tryGet = 1, !.complete = 2, !.release = 1,
                              !.unhealthy = 1]],
     \* a second config while a pass of fulfillRequests walks the club
     [opt |-> [Options(2, 2, 1, {"h1", "h2"}) EXCEPT !.timeouts = {-1}],
      left |-> [Budget EXCEPT !.get = 1, !.complete = 1, !.config = 2, !.wild = 1]],
     \* one connection at most, handed back in a bad state while a second get waits
     [opt |-> [Options(1, 1, 1, {"h1"}) EXCEPT !.timeouts = {-1}],
      left |-> [Budget EXCEPT !.get = 2, !.complete = 1, !.release = 1, !.fail = 1]],
     \* shutdown() while a caller holds a handle, given back afterwards
     [opt |-> Options(1, 2, 2, {"h1"}),
      left |-> [Budget EXCEPT !.get = 1, !.complete = 1, !.release = 1, !.shutdown = 1]],
     \* two replica sets whose configs name the same host
     [opt |-> [Options(1, 1, 1, {"h1"}) EXCEPT !.timeouts = {-1}, !.sets = {"rs", "rs2"}],
      left |-> [Budget EXCEPT !.get = 1, !.complete = 1, !.config = 2, !.shutdown = 1]],
     \* a handle dropped as it came, or after indicateFailure()
     [opt |-> Options(1, 2, 2, {"h1"}),
      left |-> [Budget EXCEPT !.get = 1, !.complete = 1, !.release = 1, !.fail = 1]],
     \* tryGet, connections that report unhealthy, and the deleter's reference
     [opt |-> Options(1, 2, 2, {"h1"}),
      left |-> [Budget EXCEPT !.get = 1, !.tryGet = 1, !.complete = 1, !.release = 1,
                              !.unhealthy = 1, !.wild = 1, !.tick = 1]],
     \* a replica set of two hosts
     [opt |-> Options(1, 1, 1, {"h1", "h2"}),
      left |-> [Budget EXCEPT !.get = 1, !.complete = 1, !.config = 1]]}

InitWith(S) ==
    /\ \E sc \in S : opt = sc.opt /\ left = sc.left
    /\ now = 1
    /\ pools = <<>>
    /\ poolMap = [h \in Hosts |-> NoPool]
    /\ clubs = <<>>
    /\ poolClubs = [s \in SetNames |-> NoClub]
    /\ tasks = EmptyBag
    /\ promises = <<>>
    /\ handles = {}
    /\ inflight = {}
    /\ fault = "none"
    /\ params = [configured |-> NotLoaded, stored |-> NotLoaded]
    /\ list = NoList

Init == InitWith(Scenarios)

Next ==
    \/ \E h \in Hosts, timeout \in Timeouts, k \in Unhealthy : Get(h, timeout, k)
    \/ \E h \in Hosts, k \in Unhealthy : TryGet(h, k)
    \/ \E hd \in handles, status \in {OK, Unknown, HostUnreachable}, used \in BOOLEAN :
           DropHandle(hd, status, used)
    \/ \E io \in inflight, status \in Statuses : Complete(io, status)
    \/ \E p \in PoolIds : FireRequestTimer(p)
    \/ \E p \in PoolIds, i \in 1..MaxCreated : FireRefreshTimer(p, i)
    \/ Tick
    \/ \E h \in Hosts : DropConnections(h)
    \/ \E asc \in BOOLEAN : Shutdown(asc)
    \/ \E name \in SetNames, servers \in SUBSET Hosts : HandleConfig(name, servers)
    \/ \E tags \in TagMasks \ {0}, asc \in BOOLEAN : DropConnectionsByTags(tags, asc)
    \/ \E h \in Hosts, tags \in TagMasks : MutateTags(h, tags)
    \/ \E name \in SetNames, h \in Hosts : HandlePrimary(name, h)
    \/ \E t \in BagToSet(tasks) : \E ch \in Choices(Head(t.fr)) : RunTask(t, ch)

Spec == Init /\ [][Next]_vars

----------------------------------------------------------------------------
(* ShardingTaskExecutorParameters, on its own: load() runs at startup, before
   any pool is made. *)

\* The server parameters as configured: any three durations.
InitLoad ==
    /\ opt = Options(1, 1, 1, {"h1"})
    /\ left = Budget
    /\ now = 1
    /\ pools = <<>>
    /\ poolMap = [h \in Hosts |-> NoPool]
    /\ clubs = <<>>
    /\ poolClubs = [s \in SetNames |-> NoClub]
    /\ tasks = EmptyBag
    /\ promises = <<>>
    /\ handles = {}
    /\ inflight = {}
    /\ fault = "none"
    /\ \E rr \in ParamValues, rt \in ParamValues, ht \in ParamValues :
           params = [configured |-> Durations(rr, rt, ht), stored |-> NotLoaded]
    /\ list = NoList

\* ShardingTaskExecutorParameters::load
Load ==
    /\ params.stored = NotLoaded
    /\ params' = [params EXCEPT !.stored = load(params.configured)]
    /\ UNCHANGED <<opt, now, pools, poolMap, clubs, poolClubs, tasks, promises,
                   handles, inflight, left, fault, list>>

NextLoad == Load

SpecLoad == InitLoad /\ [][NextLoad]_vars

----------------------------------------------------------------------------
(* LockFreeList, on its own: the catalog of latches that CatalogRegistration
   adds to, from any thread. *)

\* LockFreeList::LockFreeList, and one add() per thread; thread t adds the
\* pointer t.
NewLockFreeList ==
    [NoList EXCEPT !.th = [t \in Adders |->
                              [pc |-> "idle", index |-> 0, currentCapacity |-> 0,
                               prev |-> 0]]]

InitList ==
    /\ opt = Options(1, 1, 1, {"h1"})
    /\ left = Budget
    /\ now = 1
    /\ pools = <<>>
    /\ poolMap = [h \in Hosts |-> NoPool]
    /\ clubs = <<>>
    /\ poolClubs = [s \in SetNames |-> NoClub]
    /\ tasks = EmptyBag
    /\ promises = <<>>
    /\ handles = {}
    /\ inflight = {}
    /\ fault = "none"
    /\ params = [configured |-> NotLoaded, stored |-> NotLoaded]
    /\ list = NewLockFreeList

\* Thread t takes its next step, which leaves the list as L.
ListStep(t, pc, L) ==
    /\ list.fault = "none"
    /\ list.th[t].pc = pc
    /\ list' = L
    /\ UNCHANGED <<opt, now, pools, poolMap, clubs, poolClubs, tasks, promises,
                   handles, inflight, left, fault, params>>

\* LockFreeList::_getFreshIndex: _nextWriteIndex.fetchAndAdd(1)
fetchAndAdd(t) ==
    ListStep(t, "idle",
             [list EXCEPT !.nextWriteIndex = (@ + 1) % SizeT,
                          !.th[t].index = list.nextWriteIndex,
                          !.th[t].pc = "load"])

\* LockFreeList::_getFreshIndex: the first _capacity.load() and the test of
\* index == currentCapacity.
loadCapacity(t) ==
    ListStep(t, "load",
             [list EXCEPT !.th[t].currentCapacity = list.capacity,
                          !.th[t].pc = IF list.th[t].index = list.capacity
                                       THEN "resize" ELSE "spin"])

\* LockFreeList::_getFreshIndex: _data.resize(newCapacity, nullptr) starts.
resizeBegins(t) ==
    ListStep(t, "resize", [list EXCEPT !.th[t].pc = "resizing"])

\* LockFreeList::_getFreshIndex: _data.resize(newCapacity, nullptr) returns.
resizeEnds(t) ==
    LET newCapacity == list.th[t].currentCapacity + kCapacityGranularity
        n == Len(list.data)
    IN ListStep(t, "resizing",
                [list EXCEPT !.data = IF n < newCapacity
                                      THEN @ \o [i \in 1..(newCapacity - n) |-> NullPtr]
                                      ELSE SubSeq(@, 1, newCapacity),
                             !.th[t].pc = "store"])

\* LockFreeList::_getFreshIndex: _capacity.store(newCapacity)
storeCapacity(t) ==
    ListStep(t, "store",
             [list EXCEPT !.capacity = list.th[t].currentCapacity + kCapacityGranularity,
                          !.th[t].pc = "write"])

\* LockFreeList::_getFreshIndex: one turn of while (currentCapacity < index).
spin(t) ==
    ListStep(t, "spin",
             IF list.th[t].currentCapacity < list.th[t].index
             THEN [list EXCEPT !.th[t].currentCapacity = list.capacity]
             ELSE [list EXCEPT !.th[t].pc = "write"])

\* LockFreeList::add: _data[index] = ptr, and prev = index - 1.  The store
\* is undefined when the deque has no slot `index`, and when it runs while
\* another thread resizes the deque: the process dies, or goes on (a store
\* past the end lands outside the deque).
writeSlot(t, dies) ==
    LET me == list.th[t]
        inBounds == me.index < Len(list.data)
        racing == \E u \in Adders \ {t} : list.th[u].pc = "resizing"
    IN /\ dies => ~inBounds \/ racing
       /\ ListStep(t, "write",
                   IF dies
                   THEN [list EXCEPT !.fault =
                            IF ~inBounds THEN "add: store past the end of _data"
                            ELSE "add: store into _data during resize"]
                   ELSE [list EXCEPT !.data = IF inBounds
                                               THEN [@ EXCEPT ![me.index + 1] = t]
                                               ELSE @,
                                     !.th[t].prev = (me.index - 1) % SizeT,
                                     !.th[t].pc = "cas"])

\* LockFreeList::add: one turn of while (!_readEnd.compareAndSwap(&prev,
\* index)).  compareAndSwap takes the expected value by pointer: when the
\* exchange fails it leaves the value it found in prev.
compareAndSwap(t) ==
    ListStep(t, "cas",
             IF list.readEnd = list.th[t].prev
             THEN [list EXCEPT !.readEnd = list.th[t].index, !.th[t].pc = "done"]
             ELSE [list EXCEPT !.th[t].prev = list.readEnd])

\* LockFreeList::get
LockFreeList_get(L, index) ==
    IF index >= L.readEnd THEN NullPtr
    ELSE IF index < Len(L.data) THEN L.data[index + 1]
    ELSE Garbage

\* LockFreeList::size
LockFreeList_size(L) == L.readEnd

NextList ==
    \E t \in Adders :
        \/ fetchAndAdd(t)
        \/ loadCapacity(t)
        \/ resizeBegins(t)
        \/ resizeEnds(t)
        \/ storeCapacity(t)
        \/ spin(t)
        \/ \E dies \in BOOLEAN : writeSlot(t, dies)
        \/ compareAndSwap(t)

SpecList == InitList /\ [][NextList]_vars

----------------------------------------------------------------------------
(* What the properties observe. *)

IdsOf(S) == {c.id : c \in S}
ReadyIds(pl) == {pl.readyPool[i].id : i \in DOMAIN pl.readyPool}
QueuedIds(pl) == {pl.requests[i].id : i \in DOMAIN pl.requests}
Pending(r) == promises[r].st = "pending"

\* The places that hold the promise of request r: a slot of a pool's
\* _requests, or the local `promise` / `requestsToFail` of a running callback.
QueueSlots(r) ==
    UNION {{<<p, i>> : i \in {j \in DOMAIN pools[p].requests : pools[p].requests[j].id = r}}
              : p \in PoolIds}
FrameHolds(f, r) ==
    IF f.op = "emplaceValue" THEN (IF f.r = r THEN 1 ELSE 0)
    ELSE IF f.op = "setError" THEN Cardinality({k \in DOMAIN f.l : f.l[k] = r})
    ELSE 0
FrameSlots(r) ==
    UNION {UNION {{<<t, j, n>> : n \in 1..(CopiesIn(t, tasks) * FrameHolds(t.fr[j], r))}
                     : j \in DOMAIN t.fr}
              : t \in BagToSet(tasks)}
Holders(r) == Cardinality(QueueSlots(r)) + Cardinality(FrameSlots(r))

----------------------------------------------------------------------------
(* C1 *)

\* C1: a request enqueued by get() is held in exactly one place (the queue or
\* the one callback that took it out) until its promise is completed, and in
\* none afterwards; a promise is completed at most once, and never carries
\* both a handle and an error.
C1_CompletedExactlyOnce ==
    \A r \in DOMAIN promises :
        LET pr == promises[r]
        IN /\ pr.n <= 1
           /\ (pr.st = "pending") <=> (pr.n = 0)
           /\ pr.n = 0 => Holders(r) = 1
           /\ pr.n = 1 => Holders(r) = 0
           /\ ~(pr.c # 0 /\ pr.code # "")
           /\ pr.st = "value" => pr.c # 0
           /\ pr.st = "error" => pr.code # ""

\* One waiter got a connection after waiting, another ran into its deadline.
C1_Witness ==
    \E r1, r2 \in DOMAIN promises :
        /\ promises[r1].st = "value" /\ promises[r1].deadline # NoTime
        /\ promises[r2].st = "error" /\ promises[r2].code = TimeLimit

----------------------------------------------------------------------------
(* C2 *)

\* C2: every future returned by get() eventually completes.  The part of it
\* a finite run can refute: no future is still pending when the process has
\* stopped on a failed invariant, since nothing completes it after that.
C2_NoStrandedWaiter ==
    \A r \in DOMAIN promises : Pending(r) => fault = "none"

----------------------------------------------------------------------------
(* C3 *)

\* C3: for every endpoint and every configuration, the connections in ready,
\* processing and checkedOut together never exceed maxConnections.
C3_AtMostMaxConnections ==
    \A p \in PoolIds : openConnections(pools[p]) <= opt.maxConnections

----------------------------------------------------------------------------
(* C4 *)

\* C4: for every endpoint, the connections in processing, in setup or in
\* refresh, never exceed maxConnecting.
C4_AtMostMaxConnecting ==
    \A p \in PoolIds : refreshingConnections(pools[p]) <= opt.maxConnecting

----------------------------------------------------------------------------
(* C5 *)

\* C5: the four containers of a pool are pairwise disjoint and hold no
\* connection twice, and a connection whose setup or refresh is under way is
\* owned by processing or droppedProcessing for as long as the pool is not
\* shut down.
C5_ExactlyOneContainer ==
    \A p \in PoolIds :
        LET pl == pools[p]
            rd == ReadyIds(pl)
            pr == IdsOf(pl.processingPool)
            dr == IdsOf(pl.droppedProcessingPool)
            co == IdsOf(pl.checkedOutPool)
        IN /\ rd \cap pr = {} /\ rd \cap dr = {} /\ rd \cap co = {}
           /\ pr \cap dr = {} /\ pr \cap co = {} /\ dr \cap co = {}
           /\ Cardinality(rd) = Len(pl.readyPool)
           /\ Cardinality(pr) = Cardinality(pl.processingPool)
           /\ Cardinality(dr) = Cardinality(pl.droppedProcessingPool)
           /\ Cardinality(co) = Cardinality(pl.checkedOutPool)
           /\ \A io \in inflight :
                  io.p = p /\ pl.state # "kInShutdown" => io.c \in pr \cup dr

\* One connection is checked out while another, dropped during its setup,
\* waits in droppedProcessing.
C5_Witness ==
    \E p \in PoolIds :
        /\ pools[p].checkedOutPool # {}
        /\ pools[p].droppedProcessingPool # {}
        /\ pools[p].generation > 0

----------------------------------------------------------------------------
(* C6 *)

\* The callback at the head of a task is a setup/refresh completion, or a
\* return, of a connection from an older generation.
StaleCompletion(f) ==
    /\ f.op = "finishRefresh"
    /\ \E c \in pools[f.p].droppedProcessingPool :
           c.id = f.c /\ c.gen # pools[f.p].generation
StaleReturn(f, ch) ==
    /\ f.op = "returnConnection"
    /\ ch.ptr = f.c
    /\ \E c \in pools[f.p].checkedOutPool : c.id = f.c /\ c.gen # pools[f.p].generation

\* Pool p after the step differs from before at most by the release of the
\* connections in `released` and by connections spawned anew.
OnlyReleased(p, released) ==
    LET a == pools[p]
        b == pools'[p]
    IN /\ b.generation = a.generation
       /\ b.requests = a.requests
       /\ b.readyPool = a.readyPool
       /\ b.checkedOutPool = a.checkedOutPool \ released
       /\ a.processingPool \subseteq b.processingPool
       /\ \A c \in b.processingPool : c \in a.processingPool \/ c.id > a.created
       /\ promises' = promises

\* C6: a setup/refresh completion or a return from an older generation
\* changes nothing a caller can see, whatever status it carries: the
\* generation, the waiters, ready, processing and checkedOut stay as they
\* are, apart from the release of the stale connection.
C6_StaleChangesNothing ==
    [][\A t \in BagToSet(tasks) : \A ch \in Choices(Head(t.fr)) :
           LET f == Head(t.fr)
           IN (StaleCompletion(f) \/ StaleReturn(f, ch)) /\ RunTask(t, ch)
                  => OnlyReleased(f.p, IF f.op = "returnConnection"
                                       THEN WithId(pools[f.p].checkedOutPool, f.c)
                                       ELSE {})]_vars

----------------------------------------------------------------------------
(* C7 *)

\* Request r has left the queue for a connection or for its time-limit
\* error, and the callback that took it has not completed its promise yet.
BeingServed(r) ==
    \E t \in BagToSet(tasks) : \E j \in DOMAIN t.fr :
        /\ FrameHolds(t.fr[j], r) > 0
        /\ t.fr[j].op = "emplaceValue" \/ t.fr[j].st = TimeLimit

----------------------------------------------------------------------------
(* C8 *)

\* C8: get() hands out a handle at once only when the queue is empty and a
\* ready connection reports healthy; when a request is already waiting, the
\* new one is put in the queue with its deadline.
C8_ImmediateOnlyWithEmptyQueue ==
    [][\A h \in Hosts, timeout \in Timeouts, k \in Unhealthy :
           Get(h, timeout, k) /\ Len(promises') = Len(promises) + 1
               => LET p == poolMap'[h]
                      had == poolMap[h] # NoPool
                      q == IF had THEN pools[p].requests ELSE <<>>
                      rdy == IF had THEN pools[p].readyPool ELSE <<>>
                      pr == promises'[Len(promises')]
                  IN /\ pr.st = "value"
                         => q = <<>> /\ Len(rdy) > k /\ pr.c = rdy[k + 1].id
                     /\ q # <<>>
                         => /\ pr.st = "pending"
                            /\ Len(pools'[p].requests) = Len(q) + 1
                            /\ \E i \in DOMAIN pools'[p].requests :
                                   pools'[p].requests[i] =
                                       [deadline |-> pr.deadline, id |-> Len(promises')]]_vars

\* A get() was answered at once from the ready pool.
C8_Witness ==
    \E r \in DOMAIN promises :
        promises[r].st = "value" /\ promises[r].deadline = NoTime

----------------------------------------------------------------------------
(* C9 *)

\* C9: tryGet returns a handle only if the endpoint's pool exists, its queue
\* is empty and a ready connection reports healthy, and then the handle is
\* for the first such connection; it never creates a pool, a connection, a
\* request or a task.
C9_TryGetOnlyTakesReady ==
    [][\A h \in Hosts, k \in Unhealthy :
           TryGet(h, k)
               => /\ Len(pools') = Len(pools)
                  /\ promises' = promises
                  /\ inflight' = inflight
                  /\ tasks' = tasks
                  /\ \A p \in PoolIds :
                         /\ pools'[p].created = pools[p].created
                         /\ pools'[p].processingPool = pools[p].processingPool
                         /\ pools'[p].requests = pools[p].requests
                  /\ handles' # handles
                         => /\ poolMap[h] # NoPool
                            /\ LET pl == pools[poolMap[h]]
                               IN /\ pl.requests = <<>>
                                  /\ Len(pl.readyPool) > k
                                  /\ handles' = handles \cup
                                         {[p |-> poolMap[h], c |-> pl.readyPool[k + 1].id]}
                                  /\ pl.readyPool[k + 1].id
                                         \in IdsOf(pools'[poolMap[h]].checkedOutPool)]_vars

\* A caller holds a handle though no get() was ever fulfilled: tryGet gave it.
C9_Witness ==
    /\ handles # {}
    /\ \A r \in DOMAIN promises : promises[r].st # "value"

----------------------------------------------------------------------------
(* C10 *)

\* The effect of processFailure(status) on pool p, whose processing pool,
\* apart from the connection in `gone`, migrates to droppedProcessing.
Cascade(p, status, gone) ==
    LET a == pools[p]
        b == pools'[p]
    IN /\ b.generation = a.generation + 1
       /\ b.readyPool = <<>>
       /\ b.processingPool = {}
       /\ b.droppedProcessingPool =
              (a.droppedProcessingPool \cup a.processingPool) \ gone
       /\ b.checkedOutPool = a.checkedOutPool
       /\ b.requests = <<>>
       /\ promises' = promises
       /\ a.requests # <<>>
              => \E t \in BagToSet(tasks') :
                     /\ CopiesIn(t, tasks') = CopiesIn(t, tasks) + 1
                     /\ Head(t.fr).op = "setError"
                     /\ Head(t.fr).st = status
                     /\ Head(t.fr).l = [i \in DOMAIN a.requests |-> a.requests[i].id]

\* C10: processFailure(status) on a pool that is not in shutdown adds one to
\* the generation, empties ready, moves processing to droppedProcessing,
\* leaves checkedOut alone and takes every pending request out of the queue;
\* each of them is then completed with exactly that status.
C10_CascadeFailsAllWithStatus ==
    [][/\ \A h \in Hosts :
              /\ DropConnections(h)
              /\ poolMap[h] # NoPool
              /\ pools[poolMap[h]].state # "kInShutdown"
              => Cascade(poolMap[h], Dropped, {})
       /\ \A t \in BagToSet(tasks) : \A ch \in Choices(Head(t.fr)) :
              LET f == Head(t.fr)
              IN /\ /\ f.op = "finishRefresh"
                    /\ f.st \notin {OK, TimeLimit}
                    /\ pools[f.p].state # "kInShutdown"
                    /\ RunTask(t, ch)
                    => Cascade(f.p, f.st,
                               WithId(pools[f.p].processingPool
                                          \cup pools[f.p].droppedProcessingPool, f.c))
                 /\ f.op = "setError" /\ RunTask(t, ch)
                    => promises' =
                           [promises EXCEPT ![Head(f.l)] =
                               [@ EXCEPT !.st = "error", !.code = f.st, !.n = 1]]]_vars

\* Both waiters of one cascade were failed with the status of the drop, while
\* nobody else touched them.
C10_Witness ==
    /\ Len(promises) = 2
    /\ \A r \in DOMAIN promises :
           promises[r].st = "error" /\ promises[r].code = Dropped /\ promises[r].n = 1
    /\ \E p \in PoolIds : pools[p].generation = 1

----------------------------------------------------------------------------
(* C11 *)

\* C11: a setup or refresh that completes with NetworkInterfaceExceededTimeLimit
\* on a pool that is not in shutdown drops that one connection and nothing
\* else: the generation, the state, ready, checkedOut, the other processing
\* connections, the queue and every promise stay as they are; and in the same
\* critical section one new connection is created exactly when the spawn
\* conditions (open < target, processing < maxConnecting) hold without it.
C11_TimeLimitDropsOne ==
    [][\A t \in BagToSet(tasks) : \A ch \in Choices(Head(t.fr)) :
           LET f == Head(t.fr)
               a == pools[f.p]
               b == pools'[f.p]
               gone == WithId(a.processingPool \cup a.droppedProcessingPool, f.c)
               rest == [a EXCEPT !.processingPool = @ \ gone]
               may == /\ openConnections(rest) < spawnTarget(G0, f.p)
                      /\ Cardinality(rest.processingPool) < opt.maxConnecting
           IN /\ f.op = "finishRefresh"
              /\ f.st = TimeLimit
              /\ a.state # "kInShutdown"
              /\ RunTask(t, ch)
              => /\ b.generation = a.generation
                 /\ b.state = a.state
                 /\ b.readyPool = a.readyPool
                 /\ b.checkedOutPool = a.checkedOutPool
                 /\ b.requests = a.requests
                 /\ b.droppedProcessingPool = a.droppedProcessingPool \ gone
                 /\ promises' = promises
                 /\ handles' = handles
                 /\ \A u \in BagToSet(tasks') : \A j \in DOMAIN u.fr :
                        u.fr[j].op = "setError" => CopiesIn(u, tasks) = CopiesIn(u, tasks')
                 /\ IF may
                    THEN /\ b.created = a.created + 1
                         /\ b.processingPool =
                                rest.processingPool \cup {Conn(b.created, a.generation)}
                         /\ inflight' = inflight \cup {[p |-> f.p, c |-> b.created]}
                    ELSE /\ b.created = a.created
                         /\ b.processingPool = rest.processingPool
                         /\ inflight' = inflight]_vars

\* The first setup ran into the time limit while its caller was waiting: the
\* caller still waits, and a second connection is being set up in its place.
C11_Witness ==
    \E p \in PoolIds :
        /\ pools[p].created = 2
        /\ pools[p].generation = 0
        /\ IdsOf(pools[p].processingPool) = {2}
        /\ pools[p].readyPool = <<>>
        /\ pools[p].checkedOutPool = {}
        /\ pools[p].droppedProcessingPool = {}
        /\ Len(pools[p].requests) = 1
        /\ \A r \in DOMAIN promises : Pending(r)

----------------------------------------------------------------------------
(* C12 *)

\* C12: a handle dropped with no elapsed time and no failure cascade since
\* its connection was created puts the connection back: the return neither
\* drops it nor starts a refresh, so the connection is in ready afterwards
\* (or went on from ready to a waiting request), and with one get and one
\* drop on a cold endpoint that needs no second connection for its minimum,
\* ready = 1 and created = 1.  Read in the claim's
\* favour: the caller called indicateSuccess() before the drop, and the
\* connection reports healthy.
C12_RoundTrip ==
    [][\A t \in BagToSet(tasks) : \A ch \in Choices(Head(t.fr)) :
           LET f == Head(t.fr)
           IN /\ f.op = "returnConnection"
              /\ f.st = OK
              /\ now = 1
              /\ ch.k = 0
              /\ \E c \in pools[f.p].checkedOutPool :
                     c.id = f.c /\ c.gen = pools[f.p].generation
              /\ RunTask(t, ch)
              => /\ fault' = "none"
                 /\ f.c \in ReadyIds(pools'[f.p]) \cup IdsOf(pools'[f.p].checkedOutPool)
                 /\ Len(promises) = 1 /\ pools[f.p].created = 1
                       /\ opt.minConnections <= 1
                        => Len(pools'[f.p].readyPool) = 1 /\ pools'[f.p].created = 1]_vars

----------------------------------------------------------------------------
(* C13 *)

\* C13: no interleaving of shutdown, host-timeout teardown and get makes
\* getConnection run on a pool in state kInShutdown: a get() never finds such
\* a pool in the map and trips invariant(_state != State::kInShutdown).
C13_GetNeverOnShutdownPool ==
    fault # "getConnection: invariant(_state != kInShutdown)"

----------------------------------------------------------------------------
(* C14 *)

\* The requests a running callback still has to fail with ShutdownInProgress.
ToFailOnShutdown ==
    UNION {UNION {{t.fr[j].l[k] : k \in DOMAIN t.fr[j].l} :
                     j \in {i \in DOMAIN t.fr : t.fr[i].op = "setError"
                                                   /\ t.fr[i].st = ShutdownInProgress}}
              : t \in BagToSet(tasks)}

----------------------------------------------------------------------------
(* C15 *)

\* C15: a second shutdown() changes nothing.  When its loop reaches a pool
\* that an earlier shutdown(), since returned, has already shut down (one of
\* the pool's requests carries that call's ShutdownInProgress), the pool, its
\* generation included, and the map stay exactly as they were.
C15_SecondShutdownChangesNothing ==
    [][\A t \in BagToSet(tasks) : \A ch \in Choices(Head(t.fr)) :
           LET f == Head(t.fr)
           IN /\ f.op = "triggerShutdown"
              /\ f.st = ShutdownInProgress
              /\ \E r \in DOMAIN promises :
                     promises[r].p = Head(f.l) /\ promises[r].code = ShutdownInProgress
              /\ RunTask(t, ch)
              => /\ pools'[Head(f.l)] = pools[Head(f.l)]
                 /\ poolMap' = poolMap]_vars

----------------------------------------------------------------------------
(* C16 *)

\* The tags of pool pl and the mask have a tag in common.
TagsIntersect(pl, mask) ==
    \E b \in 0..(TagBits - 1) :
        (pl.tags \div 2 ^ b) % 2 = 1 /\ (mask \div 2 ^ b) % 2 = 1

\* C16 as claimed: when dropConnections(mask) returns, every pool of its
\* snapshot whose tags have no bit in common with the mask has no connection
\* in ready and none in processing.  Here for the pools that did go through
\* a drop: one of their requests carries PooledConnectionsDropped.
C16_NothingLeftAtReturn ==
    [][\A t \in BagToSet(tasks) : \A ch \in Choices(Head(t.fr)) :
           LET f == Head(t.fr)
           IN f.op = "dropConnections.return" /\ RunTask(t, ch)
              => \A i \in DOMAIN f.l :
                     LET pl == pools'[f.l[i]]
                     IN /\ ~TagsIntersect(pl, f.c)
                        /\ \E r \in DOMAIN promises :
                               promises[r].p = f.l[i] /\ promises[r].code = Dropped
                        => pl.readyPool = <<>> /\ pl.processingPool = {}]_vars

\* C16 amended: dropConnections(mask) visits the pools of its snapshot one
\* critical section each.  A pool whose tags have a bit in common with the
\* mask at that moment is left exactly as it is, and so is everything else;
\* any other pool has no connection in ready or in processing when the
\* critical section ends and, unless it is in shutdown, has gone through the
\* PooledConnectionsDropped cascade.  No other pool changes in that step.
C16_DropByTagsCascade ==
    [][\A t \in BagToSet(tasks) : \A ch \in Choices(Head(t.fr)) :
           LET f == Head(t.fr)
               p == Head(f.l)
           IN f.op = "dropConnections" /\ RunTask(t, ch)
              => /\ \A q \in PoolIds \ {p} : pools'[q] = pools[q]
                 /\ TagsIntersect(pools[p], f.c)
                    => /\ pools' = pools
                       /\ promises' = promises
                       /\ poolMap' = poolMap
                 /\ ~TagsIntersect(pools[p], f.c)
                    => /\ pools'[p].readyPool = <<>>
                       /\ pools'[p].processingPool = {}
                       /\ pools[p].state # "kInShutdown" => Cascade(p, Dropped, {})]_vars

\* One drop by tags went over two pools with a waiter each: the waiter of the
\* pool with the starting tags was failed, the waiter of the pool tagged with
\* a bit of the mask still waits, and the call has returned.
C16_Witness ==
    /\ \E p, q \in PoolIds :
           /\ pools[p].generation = 1 /\ pools[p].tags = kPending
           /\ pools[q].generation = 0 /\ pools[q].tags # kPending
           /\ pools[q].requests # <<>>
           /\ \E r \in DOMAIN promises :
                  promises[r].p = p /\ promises[r].code = Dropped
    /\ \A t \in BagToSet(tasks) : \A j \in DOMAIN t.fr :
           t.fr[j].op \notin {"dropConnections", "dropConnections.return"}
    /\ left.dropTags = 0

----------------------------------------------------------------------------
(* C17 *)

\* C17: a pool leaves the map only in a step that leaves it in kInShutdown
\* with processing empty and no guarded callback inside it.
C17_DelistedOnlyWhenDrained ==
    [][\A h \in Hosts :
           poolMap[h] # NoPool /\ poolMap'[h] # poolMap[h]
               => LET pl == pools'[poolMap[h]]
                  IN /\ pl.state = "kInShutdown"
                     /\ pl.processingPool = {}
                     /\ pl.activeClients = 0]_vars

----------------------------------------------------------------------------
(* C18 *)

\* C18: the host timeout shuts no pool down while a member of its club is
\* kRunning or kIdle (the callback's own pool apart, which it has just found
\* kIdle and marked kHostTimedOut).
C18_IdleShutdownOnlyOfTimedOutClub ==
    [][\A t \in BagToSet(tasks) : \A ch \in Choices(Head(t.fr)) :
           LET f == Head(t.fr)
           IN /\ f.op \in {"hostTimeout", "checkShutdown.loop"} /\ RunTask(t, ch)
              => \A q \in DOMAIN pools :
                     pools[q].state # "kInShutdown" /\ pools'[q].state = "kInShutdown"
                         => \A m \in clubs[pools[q].controller].pools :
                                \/ f.op = "hostTimeout" /\ m = f.p
                                \/ pools[m].state \notin {"kRunning", "kIdle"}]_vars

----------------------------------------------------------------------------
(* C19 *)

\* C19: when the host timeout's callback finds a pool kIdle that is alone in
\* its club, the pool is left in kInShutdown and its host has no pool in the
\* map.
C19_IdleTeardown ==
    [][\A t \in BagToSet(tasks) : \A ch \in Choices(Head(t.fr)) :
           LET f == Head(t.fr)
           IN /\ f.op = "hostTimeout"
              /\ pools[f.p].state = "kIdle"
              /\ clubs[pools[f.p].controller].pools = {f.p}
              /\ RunTask(t, ch)
              => /\ pools'[f.p].state = "kInShutdown"
                 /\ poolMap'[pools[f.p].host] = NoPool]_vars

----------------------------------------------------------------------------
(* C20 *)

\* C20: a get() on a pool that is kIdle or kHostTimedOut leaves it kRunning
\* with no host timeout armed.
C20_GetWakesPool ==
    [][\A h \in Hosts, timeout \in Timeouts, k \in Unhealthy :
           /\ poolMap[h] # NoPool
           /\ pools[poolMap[h]].state \in {"kIdle", "kHostTimedOut"}
           /\ Get(h, timeout, k)
           => /\ pools'[poolMap[h]].state = "kRunning"
              /\ pools'[poolMap[h]].requestTimer.kind # "host"]_vars

----------------------------------------------------------------------------
(* C21 *)

\* C21: a pool that is not in shutdown and has a pending request or a
\* connection checked out is kRunning.
C21_BusyIsRunning ==
    \A p \in DOMAIN pools :
        /\ pools[p].state # "kInShutdown"
        /\ pools[p].requests # <<>> \/ pools[p].checkedOutPool # {}
        => pools[p].state = "kRunning"

----------------------------------------------------------------------------
(* C22 *)

\* The club's minConns as updateController computes it from the state.
EffectiveMinConns(p) == updateController(G0, p).clubs[pools[p].controller].minConns

\* Nothing is scheduled, running or in flight, and the pool has no timer
\* armed: only a new call can change the pool.
Quiescent(p) ==
    /\ tasks = EmptyBag
    /\ \A io \in inflight : io.p # p
    /\ pools[p].requestTimer = NoTimer
    /\ \A i \in DOMAIN pools[p].readyPool : pools[p].readyPool[i].timer = NoTime

\* C22: a pool that is kRunning because a caller holds one of its connections
\* has, at rest, at least the club's effective minConns connections open.
C22_FloorAtRest ==
    \A p \in DOMAIN pools :
        /\ pools[p].state = "kRunning" /\ pools[p].checkedOutPool # {}
        /\ Quiescent(p) /\ fault = "none"
        => openConnections(pools[p]) >= EffectiveMinConns(p)

----------------------------------------------------------------------------
(* C23 *)

\* C23: when every pool is at rest, a pool of a club has at least as many
\* connections open as any pool of that club has checked out.
C23_WarmAtRest ==
    \A p \in DOMAIN pools : \A q \in clubs[pools[p].controller].pools :
        /\ fault = "none"
        /\ \A x \in DOMAIN pools : Quiescent(x)
        /\ p \in clubs[pools[p].controller].pools
        /\ pools[q].controller = pools[p].controller
        /\ pools[q].state # "kInShutdown"
        => openConnections(pools[q])
               >= Min(inUseConnections(pools[p]), opt.maxConnections)

----------------------------------------------------------------------------
(* C24 *)

\* The members of the club of a set name, before it has a club: none.
MembersOf(name) == IF poolClubs[name] = NoClub THEN {} ELSE clubs[poolClubs[name]].pools

\* C24: after handleConfig(name, servers) every server has a pool in the
\* map, the club of the name has exactly these pools as members and is their
\* controller, and every former member that is not listed has a new club of
\* its own, with defaultMinConns the configured minConnections.
C24_HandleConfig ==
    [][\A name \in SetNames : \A servers \in SUBSET Hosts :
           HandleConfig(name, servers)
           => LET club == poolClubs'[name]
                  members == {poolMap'[h] : h \in servers}
              IN /\ club # NoClub
                 /\ NoPool \notin members
                 /\ clubs'[club].pools = members
                 /\ \A q \in members : pools'[q].controller = club
                 /\ \A q \in MembersOf(name) \ members :
                        LET c == pools'[q].controller
                        IN /\ c \notin DOMAIN clubs
                           /\ clubs'[c].pools = {q}
                           /\ clubs'[c].defaultMinConns = opt.minConnections]_vars

\* A config has detached a pool from a club that still has a member.
C24_Witness ==
    /\ poolClubs["rs"] # NoClub
    /\ clubs[poolClubs["rs"]].pools # {}
    /\ Len(clubs) > Len(pools) + 1
    /\ \E q \in DOMAIN pools :
           /\ pools[q].controller > poolClubs["rs"]
           /\ clubs[pools[q].controller].pools = {q}
           /\ left.config = 0

----------------------------------------------------------------------------
(* C25 *)

\* C25: handlePrimary(name, host) with a host that is not the recorded
\* primary records it and starts a spawn pass on the host's pool, which, when
\* the pool is below its target and may connect, puts a connection in
\* processing or schedules the pass.
C25_HandlePrimarySpawns ==
    [][\A name \in SetNames : \A h \in Hosts :
           /\ poolClubs[name] = NoClub \/ clubs[poolClubs[name]].primary # h
           /\ HandlePrimary(name, h)
           => /\ fault' = "none"
              /\ clubs'[poolClubs'[name]].primary = h
              /\ LET p == poolMap[h]
                     pl == pools'[p]
                 IN /\ p # NoPool
                    /\ pl.state # "kInShutdown"
                    /\ openConnections(pl) < Max(clubs'[pl.controller].minConns,
                                                 Min(Len(pl.requests)
                                                       + Cardinality(pl.checkedOutPool),
                                                     opt.maxConnections))
                    /\ Cardinality(pl.processingPool) < opt.maxConnecting
                    => \/ pl.processingPool # pools[p].processingPool
                       \/ \E t \in BagToSet(tasks') :
                              /\ CopiesIn(t, tasks') > CopiesIn(t, tasks)
                              /\ Head(t.fr).op = "spawnConnections"
                              /\ Head(t.fr).p = p]_vars

----------------------------------------------------------------------------
(* C26 *)

\* C26: once a get() has written the SSL mode of a pool, no step replaces it
\* by another mode.
C26_ModeNeverReplaced ==
    [][\A p \in DOMAIN pools :
           pools[p].sslMode # Indeterminate => pools'[p].sslMode = pools[p].sslMode]_vars

----------------------------------------------------------------------------
(* C27 *)

\* C27: the request that get(timeout) queues at time now has deadline
\* now + timeout when 0 <= timeout <= refreshTimeout, and now + refreshTimeout
\* otherwise.
C27_DeadlineClamped ==
    [][\A h \in Hosts, timeout \in Timeouts, k \in Unhealthy :
           /\ Get(h, timeout, k)
           /\ Len(promises') = Len(promises) + 1
           /\ promises'[Len(promises')].st = "pending"
           => LET reqs == pools'[poolMap'[h]].requests
                  d == IF 0 <= timeout /\ timeout <= opt.refreshTimeout
                       THEN now + timeout ELSE now + opt.refreshTimeout
              IN /\ \E i \in DOMAIN reqs :
                        reqs[i].id = Len(promises') /\ reqs[i].deadline = d
                 /\ d <= now + opt.refreshTimeout
                 /\ promises'[Len(promises')].deadline = d]_vars

\* Two requests queued at the same time, one with the caller's timeout of
\* zero and one with the clamped timeout.
C27_Witness ==
    /\ now = 1
    /\ \E p \in DOMAIN pools : \E i, j \in DOMAIN pools[p].requests :
           /\ pools[p].requests[i].deadline = now
           /\ pools[p].requests[j].deadline = now + opt.refreshTimeout

----------------------------------------------------------------------------
(* C28 *)

\* C28: the durations load() has stored satisfy
\* refreshTimeout < refreshRequirement < hostTimeout.
C28_StoredOrdered ==
    params.stored # NotLoaded
        => /\ params.stored.refreshTimeout < params.stored.refreshRequirement
           /\ params.stored.refreshRequirement < params.stored.hostTimeout

----------------------------------------------------------------------------
(* C29 *)

\* The connection a callback at the head of a task gives back with OK status:
\* the one of a released handle (the pointer read back intact), or the ready
\* connection whose refresh timer fired, which the timer callback checks out,
\* marks successful and passes to returnConnection.  Only a connection of the
\* pool's current generation counts.
ReturnedOK(f, ch) ==
    LET pl == pools[f.p]
    IN {c \in IF f.op = "returnConnection" /\ ch.ptr = f.c /\ f.st = OK
              THEN WithId(pl.checkedOutPool, f.c)
              ELSE IF f.op = "idleRefresh" /\ pl.state # "kInShutdown"
              THEN {pl.readyPool[i] : i \in {j \in DOMAIN pl.readyPool :
                                                pl.readyPool[j].id = f.c}}
              ELSE {} : c.gen = pl.generation}

\* C29: returnConnection of a connection of the current generation with OK
\* status puts it in ready when lastUsed + refreshRequirement > now (from
\* where a waiting request may take it at once); otherwise it lets the
\* connection go when the pool's other connections in ready, processing and
\* checkedOut already number the club's minConns, and else puts it in
\* processing with a refresh in flight.  So, when the refresh timer of a
\* ready connection fires in a pool without requests, the pool has one open
\* connection less if it had more than minConns, and as many as before if
\* not.
C29_ReturnConnection ==
    [][\A t \in BagToSet(tasks) : \A ch \in Choices(Head(t.fr)) :
           LET f == Head(t.fr)
               pl == pools[f.p]
               minConns == clubs[pl.controller].minConns
               open == openConnections(pl)
               after == pools'[f.p]
           IN \A c \in ReturnedOK(f, ch) :
                  RunTask(t, ch)
                  => /\ fault' = "none"
                     /\ c.lastUsed + opt.refreshRequirement > now
                        => /\ pl.requests = <<>> => c.id \in ReadyIds(after)
                           /\ ch.k = 0 => c.id \in ReadyIds(after)
                                                  \cup IdsOf(after.checkedOutPool)
                     /\ c.lastUsed + opt.refreshRequirement <= now /\ open - 1 >= minConns
                        => /\ c.id \notin ReadyIds(after)
                                          \cup IdsOf(after.processingPool)
                                          \cup IdsOf(after.checkedOutPool)
                           /\ [p |-> f.p, c |-> c.id] \notin inflight'
                           /\ openConnections(after) = open - 1
                     /\ c.lastUsed + opt.refreshRequirement <= now /\ open - 1 < minConns
                        => /\ c.id \in IdsOf(after.processingPool)
                           /\ [p |-> f.p, c |-> c.id] \in inflight'
                           /\ openConnections(after) = open
                     /\ f.op = "idleRefresh" /\ pl.requests = <<>>
                        => openConnections(after)
                               = IF open > minConns THEN open - 1 ELSE open]_vars

\* Two callers were served by two connections and gave them back; both
\* connections idled for refreshRequirement.  One was let go, the other is in
\* processing with its refresh in flight: the pool holds exactly the club's
\* minConns of one.
C29_Witness ==
    /\ fault = "none"
    /\ \E p \in PoolIds :
           LET pl == pools[p]
           IN /\ pl.requests = <<>> /\ pl.readyPool = <<>> /\ pl.checkedOutPool = {}
              /\ pl.generation = 0 /\ pl.created = 2
              /\ clubs[pl.controller].minConns = 1
              /\ \E c \in pl.processingPool :
                     /\ pl.processingPool = {c}
                     /\ c.lastUsed + opt.refreshRequirement <= now
                     /\ [p |-> p, c |-> c.id] \in inflight
                     /\ \E r \in DOMAIN promises :
                            promises[r].st = "value" /\ promises[r].c = c.id
                     /\ \E r \in DOMAIN promises :
                            promises[r].st = "value" /\ promises[r].c # c.id
              /\ handles = {}

----------------------------------------------------------------------------
(* C30 *)

\* The requests of a queue, as a set.
Queued(requests) == {requests[i] : i \in DOMAIN requests}

\* One turn of the request timer's callback, which took `now` when it
\* started: while a pending request has a deadline <= now, the turn takes the
\* earliest request out of the queue, that one only, and goes on to set the
\* time-limit error on its promise; when none has, the queue stays as it is
\* and, if a request is left, the timer stands for the earliest deadline:
\* _requestTimerExpiration is that deadline, and the timer is armed for it or
\* has fired for it with its callback waiting for the lock.
C30_TimerTurn ==
    [][\A t \in BagToSet(tasks) : \A ch \in Choices(Head(t.fr)) :
           LET f == Head(t.fr)
               pl == pools[f.p]
               localNow == IF f.op = "requestTimer" THEN now ELSE f.c
               due == {x \in Queued(pl.requests) : x.deadline <= localNow}
               after == pools'[f.p]
           IN f.op \in {"requestTimer", "requestTimer.relock"} /\ RunTask(t, ch)
              => /\ fault' = "none"
                 /\ promises' = promises
                 /\ due # {}
                    => \E x \in due :
                           /\ \A y \in Queued(pl.requests) : x.deadline <= y.deadline
                           /\ Queued(after.requests) = Queued(pl.requests) \ {x}
                           /\ Len(after.requests) = Len(pl.requests) - 1
                           /\ \E u \in BagToSet(tasks') :
                                  /\ Head(u.fr).op = "setError"
                                  /\ Head(u.fr).st = TimeLimit
                                  /\ Head(u.fr).l = <<x.id>>
                 /\ due = {}
                    => /\ after.requests = pl.requests
                       /\ pl.requests # <<>>
                          => /\ \A y \in Queued(pl.requests) :
                                    after.requestTimerExpiration <= y.deadline
                             /\ after.requestTimerExpiration = pl.requests[1].deadline
                             /\ \/ after.requestTimer
                                       = [kind |-> "request",
                                          at |-> pl.requests[1].deadline]
                                \/ \E u \in BagToSet(tasks') :
                                       Head(u.fr).op = "requestTimer"
                                           /\ Head(u.fr).p = f.p]_vars

\* The promise of the request taken out fails with the time-limit error, and
\* no other promise changes.
C30_TimeLimitSet ==
    [][\A t \in BagToSet(tasks) : \A ch \in Choices(Head(t.fr)) :
           LET f == Head(t.fr)
           IN f.op = "setError" /\ f.st = TimeLimit /\ RunTask(t, ch)
              => /\ promises'[Head(f.l)].st = "error"
                 /\ promises'[Head(f.l)].code = TimeLimit
                 /\ promises[Head(f.l)].deadline <= now
                 /\ \A r \in DOMAIN promises \ {Head(f.l)} :
                        promises'[r] = promises[r]]_vars

\* No promise carries the time-limit error before its deadline, and a
\* request still in a queue has a pending promise.
C30_NeverEarly ==
    /\ \A r \in DOMAIN promises :
           promises[r].code = TimeLimit => promises[r].deadline <= now
    /\ \A p \in PoolIds : \A x \in Queued(pools[p].requests) :
           promises[x.id].st = "pending" /\ promises[x.id].deadline = x.deadline

\* C30: when the pool's deadline timer fires at time now, exactly the pending
\* requests with deadline <= now are failed with the time-limit error, every
\* request with deadline > now stays pending, and the timer is set again for
\* the earliest remaining deadline; no request is ever failed with the
\* time-limit error before its own deadline.
C30_DeadlineTimer ==
    C30_TimerTurn /\ C30_TimeLimitSet /\ []C30_NeverEarly

----------------------------------------------------------------------------
(* C31 *)

\* The ids a pool holds in ready, processing or checkedOut.
HeldIds(pl) == ReadyIds(pl) \cup IdsOf(pl.processingPool) \cup IdsOf(pl.checkedOutPool)

\* Pool p over one step in which isHealthy() answered no k times.  A
\* connection that is in ready after the step and was not before is at the
\* front, the one connection that entered.  A connection that is checked out
\* after the step and was in ready before was the first one there to report
\* healthy: the ones in front of it are gone from the pool, k of them, or
\* k - 1 when the connection given back in this step was the first to report
\* unhealthy, and the ones behind it are left in their order.  A connection
\* that is checked out after the step and came in through ready in this step
\* was taken from the front at once, with ready left as it was.
LastInFirstOut(p, k) ==
    LET a == pools[p].readyPool
        b == pools'[p].readyPool
        entered == ReadyIds(pools'[p]) \ ReadyIds(pools[p])
        taken == IdsOf(pools'[p].checkedOutPool) \ IdsOf(pools[p].checkedOutPool)
        rest == IF entered = {} THEN b ELSE Tail(b)
    IN /\ \A c \in entered : b[1].id = c
       /\ \A c \in taken \cap ReadyIds(pools[p]) :
              LET i == CHOOSE j \in DOMAIN a : a[j].id = c
              IN /\ entered = {}
                 /\ b = SubSeq(a, i + 1, Len(a))
                 /\ \A j \in 1..(i - 1) : a[j].id \notin HeldIds(pools'[p])
                 /\ \/ i = k + 1
                    \/ i = k /\ HeldIds(pools[p]) \ HeldIds(pools'[p])
                                    # {a[j].id : j \in 1..(i - 1)}
       /\ \A c \in taken \ ReadyIds(pools[p]) :
              /\ k = 0
              /\ rest = a
       /\ taken = {} /\ entered # {} => \E j \in 0..Len(a) : rest = SubSeq(a, j + 1, Len(a))

\* The steps LastInFirstOut speaks of: a connection enters some pool's ready,
\* or is checked out of some pool.
ReadyMoved ==
    \E p \in PoolIds :
        \/ ReadyIds(pools'[p]) \ ReadyIds(pools[p]) # {}
        \/ IdsOf(pools'[p].checkedOutPool) \ IdsOf(pools[p].checkedOutPool) # {}

\* C31: ready is used last in, first out.  A connection that enters ready,
\* after setup, refresh or return, becomes its most recently used entry, and
\* every checkout, by get()'s fast path, by tryGet() or by fulfillRequests,
\* takes the most recently readied connection that reports healthy and drops
\* the unhealthy ones it meets on the way.
C31_ReadyIsLIFO ==
    [][ReadyMoved =>
           /\ \A h \in Hosts, timeout \in Timeouts, k \in Unhealthy :
                  Get(h, timeout, k) => \A p \in PoolIds : LastInFirstOut(p, k)
           /\ \A h \in Hosts, k \in Unhealthy :
                  TryGet(h, k) => \A p \in PoolIds : LastInFirstOut(p, k)
           /\ \A t \in BagToSet(tasks) : \A ch \in Choices(Head(t.fr)) :
                  RunTask(t, ch) => \A p \in PoolIds : LastInFirstOut(p, ch.k)]_vars

\* A caller gave its connection back, which made it the front of ready, ahead
\* of the pool's other connection.  tryGet() then met it first, dropped it as
\* it reported unhealthy, and handed out the other one.
C31_Witness ==
    /\ fault = "none"
    /\ Len(promises) = 1
    /\ promises[1].st = "value"
    /\ LET pl == pools[promises[1].p]
       IN /\ pl.generation = 0 /\ pl.created = 2
          /\ pl.readyPool = <<>> /\ pl.processingPool = {}
          /\ \E c \in pl.checkedOutPool :
                 /\ pl.checkedOutPool = {c}
                 /\ c.id # promises[1].c
                 /\ handles = {[p |-> promises[1].p, c |-> c.id]}

----------------------------------------------------------------------------
(* C32 *)

\* max(defaultMinConns, the largest |checkedOut| among the pools that club c
\* lists), over the pools and clubs given.
RollingMax(ps, cs, c) ==
    LET inUse == {Cardinality(ps[q].checkedOutPool) : q \in cs[c].pools}
                     \cup {cs[c].defaultMinConns}
    IN CHOOSE x \in inUse : \A y \in inUse : x >= y

\* Where a pass of fulfillRequests by pool p updates the club: the club's
\* minConns is the rolling maximum over all members, and the walk that
\* follows is over every member.
TailUpdatesClub(p, asc) ==
    LET r == fulfillTail(G0, p, [asc |-> asc])
        c == pools[p].controller
        walk == r.fr[1]
    IN /\ r.g.clubs[c].minConns = RollingMax(pools, clubs, c)
       /\ walk.op = "spawnAll"
       /\ {walk.l[i] : i \in DOMAIN walk.l} = clubs[c].pools
       /\ Len(walk.l) = Cardinality(clubs[c].pools)

\* spawnConnections has nothing left to do for pool q after the step.
Spawned(q) ==
    LET pl == pools'[q]
    IN \/ pl.state = "kInShutdown"
       \/ openConnections(pl)
              >= Max(clubs'[pl.controller].minConns,
                     Min(Len(pl.requests) + Cardinality(pl.checkedOutPool),
                         opt.maxConnections))
       \/ Cardinality(pl.processingPool) >= opt.maxConnecting

\* A turn of the walk, taken up again after spawnConnections gave the lock
\* up around setup(): the walk goes on over the members it had ahead, so
\* each of them is done with, is the one spawnConnections is busy with, or
\* is still ahead.
WalkGoesOn(t, ch) ==
    LET walk == t.fr[2]
        ahead == {walk.l[i] : i \in DOMAIN walk.l}
    IN Len(t.fr) >= 2 /\ Head(t.fr).op = "spawnConnections" /\ walk.op = "spawnAll"
       /\ RunTask(t, ch)
       => /\ fault' = "none"
          /\ \A q \in ahead :
                 \/ Spawned(q)
                 \/ \E u \in BagToSet(tasks') :
                        /\ Len(u.fr) >= 2 /\ u.fr[2].op = "spawnAll"
                        /\ u.fr[2].r = walk.r /\ u.fr[2].p = walk.p
                        /\ \/ Head(u.fr).op = "spawnConnections" /\ Head(u.fr).p = q
                           \/ \E i \in DOMAIN u.fr[2].l : u.fr[2].l[i] = q

\* C32: where a fulfillRequests pass updates the club, and at the end of
\* handleConfig, club.minConns = max(defaultMinConns, the maximum of
\* |checkedOut| over all pools currently in the club), over all members and
\* not only the primary, and the pass then runs spawnConnections on every
\* member pool.
C32_ClubMinConns ==
    /\ [](\A p \in PoolIds : \A asc \in BOOLEAN : TailUpdatesClub(p, asc))
    /\ [][\A name \in SetNames : \A servers \in SUBSET Hosts :
              HandleConfig(name, servers)
              => clubs'[poolClubs'[name]].minConns
                     = RollingMax(pools', clubs', poolClubs'[name])]_vars
    /\ [][\A t \in BagToSet(tasks) : \A ch \in Choices(Head(t.fr)) :
              WalkGoesOn(t, ch)]_vars

----------------------------------------------------------------------------
(* C33 *)

\* C33: a pool in kInShutdown leaves the map once its processing container
\* is empty and the callbacks that were inside it have returned, with no
\* further call from outside; also when triggerShutdown ran while a guarded
\* callback had given the lock up inside the pool.  Here at rest: when
\* nothing is scheduled, running or in flight and no timer of the pool is
\* armed, such a pool is not in the map any more.
C33_DelistedAtRest ==
    \A p \in DOMAIN pools :
        /\ fault = "none"
        /\ pools[p].state = "kInShutdown"
        /\ pools[p].processingPool = {}
        /\ pools[p].activeClients = 0
        /\ Quiescent(p)
        => poolMap[pools[p].host] # p

----------------------------------------------------------------------------
(* C34 *)

\* C34: pending requests are never stranded.  Whenever a pool that is not in
\* kInShutdown has a pending request and fewer connections in ready,
\* processing and checkedOut than min(pending + checkedOut, maxConnections),
\* a spawn pass is scheduled or in progress or will run before the request's
\* deadline; so when returnConnection drops a connection while requests
\* wait, a replacement is spawned.  Here at rest: such a pool, with room
\* under maxConnecting, has a callback scheduled or running or a setup or
\* refresh in flight; it is not left with the request timer alone.
C34_NotStranded ==
    \A p \in DOMAIN pools :
        LET pl == pools[p]
        IN /\ fault = "none"
           /\ pl.state # "kInShutdown"
           /\ pl.requests # <<>>
           /\ openConnections(pl)
                  < Min(Len(pl.requests) + Cardinality(pl.checkedOutPool),
                        opt.maxConnections)
           /\ Cardinality(pl.processingPool) < opt.maxConnecting
           => \/ tasks # EmptyBag
              \/ \E io \in inflight : io.p = p

----------------------------------------------------------------------------
(* C35 *)

\* C35: whenever a pool is removed from the parent's map (after which
\* ~SpecificPool may run), its _checkedOutPool and its _requests are empty,
\* so the destructor's invariants on the two never fail.
C35_DelistedEmpty ==
    [][\A p \in DOMAIN pools :
           /\ poolMap[pools[p].host] = p
           /\ poolMap'[pools[p].host] # p
           => /\ pools'[p].checkedOutPool = {}
              /\ pools'[p].requests = <<>>]_vars

----------------------------------------------------------------------------
(* C36 *)

\* The connections of _readyPool, as a set.
ReadySet(pl) == {pl.readyPool[i] : i \in 1..Len(pl.readyPool)}

\* C36: in every reachable state every connection in _readyPool and every
\* connection in _processingPool carries the pool's current generation, and
\* every connection in _droppedProcessingPool carries an older one; so a
\* connection made before a failure cascade is never put in _readyPool nor
\* handed to a caller after it, even if its setup completes with OK:
\* finishRefresh drops it and completes no promise.
C36_Generations ==
    /\ [](\A p \in DOMAIN pools :
             LET pl == pools[p]
             IN /\ \A c \in ReadySet(pl) : c.gen = pl.generation
                /\ \A c \in pl.processingPool : c.gen = pl.generation
                /\ \A c \in pl.droppedProcessingPool : c.gen < pl.generation)
    /\ [][\A t \in BagToSet(tasks) : \A ch \in Choices(Head(t.fr)) :
             LET f == Head(t.fr)
                 a == pools[f.p]
                 b == pools'[f.p]
             IN /\ f.op = "finishRefresh"
                /\ f.st = OK
                /\ WithId(a.droppedProcessingPool, f.c) # {}
                /\ a.state # "kInShutdown"
                /\ RunTask(t, ch)
                => /\ f.c \notin HeldIds(b)
                   /\ WithId(b.droppedProcessingPool, f.c) = {}
                   /\ b.readyPool = a.readyPool
                   /\ b.checkedOutPool = a.checkedOutPool
                   /\ b.generation = a.generation
                   /\ promises' = promises
                   /\ handles' = handles]_vars

\* A setup was under way when dropConnections() came; it completed with OK
\* afterwards and its connection was neither kept nor handed out: the one
\* the pool sets up now was made after the drop.
C36_Witness ==
    \E p \in PoolIds :
        /\ left.dropConnections = 0
        /\ left.complete = 0
        /\ left.fail = 1
        /\ tasks = EmptyBag
        /\ pools[p].generation = 1
        /\ pools[p].created = 2
        /\ pools[p].readyPool = <<>>
        /\ pools[p].checkedOutPool = {}
        /\ pools[p].droppedProcessingPool = {}
        /\ pools[p].processingPool = {Conn(2, 1)}
        /\ inflight = {[p |-> p, c |-> 2]}
        /\ handles = {}
        /\ \A r \in DOMAIN promises : promises[r].st = "error"
        /\ fault = "none"

----------------------------------------------------------------------------
(* C37 *)

\* C37: kInShutdown is absorbing and empty.  Once a pool's state is
\* kInShutdown it never changes state again, its _readyPool, _processingPool
\* and _droppedProcessingPool stay empty, and no connection is created for
\* it, whatever runs later: finishRefresh, returnConnection, the idle
\* refresh timer, a spawn pass started by a club peer, or dropConnections.
C37_ShutdownAbsorbing ==
    /\ [](\A p \in DOMAIN pools :
             pools[p].state = "kInShutdown"
             => /\ pools[p].readyPool = <<>>
                /\ pools[p].processingPool = {}
                /\ pools[p].droppedProcessingPool = {})
    /\ [][\A p \in DOMAIN pools :
             pools[p].state = "kInShutdown"
             => /\ pools'[p].state = "kInShutdown"
                /\ pools'[p].created = pools[p].created]_vars


\* shutdown() failed the waiting get() and left the pool in kInShutdown; a
\* drop of the host's connections that had copied the map before then ran
\* processFailure on it once more, and the pool is as shutdown() left it but
\* for its generation.
C37_Witness ==
    \E p \in PoolIds :
        /\ fault = "none"
        /\ tasks = EmptyBag
        /\ pools[p].state = "kInShutdown"
        /\ pools[p].generation = 2
        /\ pools[p].created = 1
        /\ Len(promises) >= 1
        /\ promises[1].p = p
        /\ promises[1].st = "error"
        /\ promises[1].code = "ShutdownInProgress"

----------------------------------------------------------------------------
(* C38 *)

\* The PoolClub objects that still exist: the named ones, which _poolClubs
\* keeps, and the controllers of the pools in the map.
LiveClubs ==
    ({poolClubs[n] : n \in DOMAIN poolClubs} \ {NoClub})
        \cup {pools[p].controller : p \in Listed}

\* C38: club membership is consistent in every reachable state.  A pool of
\* the map is in a club's set of pools exactly when that club is its
\* controller, so it belongs to one club only; and no club lists a pool that
\* has been removed from the map.  This holds after any handleConfig calls,
\* configs of two replica sets that name the same host included, and after
\* delisting.
C38_ClubMembership ==
    \A c \in LiveClubs : \A p \in DOMAIN pools :
        IF p \in Listed
        THEN p \in clubs[c].pools <=> pools[p].controller = c
        ELSE p \notin clubs[c].pools

----------------------------------------------------------------------------
(* C39 *)

\* C39: handlePrimary(setName, host) is safe for a host that has no pool in
\* the map (a primary reported before any handleConfig or get for that host,
\* or after its pool was delisted): it records the primary and returns
\* without a call through a missing pool, and leaves every pool as it was.
C39_HandlePrimaryNoPool ==
    [][\A name \in SetNames : \A h \in Hosts :
           /\ poolMap[h] = NoPool
           /\ HandlePrimary(name, h)
           => /\ fault' = "none"
              /\ clubs'[poolClubs'[name]].primary = h
              /\ pools' = pools
              /\ poolMap' = poolMap]_vars

----------------------------------------------------------------------------
(* C40 *)

\* The thread whose add() drew the index i.
AdderOf(i) == {t \in Adders : list.th[t].pc # "idle" /\ list.th[t].index = i}

\* A thread waits in _getFreshIndex for a capacity that nobody is left to
\* raise: every index has been drawn, and no thread is on the resize path.
WaitsForEver ==
    /\ \A u \in Adders : list.th[u].pc \in {"spin", "write", "cas", "done"}
    /\ \E t \in Adders : /\ list.th[t].pc = "spin"
                         /\ list.capacity < list.th[t].index

\* C40: LockFreeList under concurrent add() calls.  Every add() terminates;
\* the published end index never decreases; once all the calls have returned,
\* size() is the number of them; and for every index i < size(), get(i) is
\* the pointer whose add() got i, never an unwritten slot nor a slot past
\* the allocated capacity.
C40_LockFreeList ==
    /\ [](list.fault = "none")
    /\ [](~WaitsForEver)
    /\ [][list'.readEnd >= list.readEnd]_vars
    /\ []((\A t \in Adders : list.th[t].pc = "done")
              => LockFreeList_size(list) = MaxAdds)
    /\ [](\A i \in 0..(MaxAdds - 1) :
              i < LockFreeList_size(list)
              => /\ i < list.capacity
                 /\ \E t \in AdderOf(i) : LockFreeList_get(list, i) = t)

====
